---------------------------- MODULE Spec2Model ----------------------------
(***************************************************************************)
(* Report-Generator: the bookmark templating engine of app/backend and the *)
(* chapter-tab wizard of app/frontend.                                     *)
(*                                                                         *)
(* The Word document is a sequence of tokens with Word's 0-based offsets:  *)
(* doc.Range(s, e) covers the tokens s+1 .. e of the sequence, and          *)
(* doc.Content.End is its length (the last token is the final paragraph    *)
(* mark).  A token stands for one character of the real document, or for a *)
(* run of static text that no operation of the program looks into.         *)
(* Bookmark names and dictionary keys are sequences of name parts (words,  *)
(* "_" and single digits), so that str.startswith is the prefix relation   *)
(* on sequences.                                                           *)
(***************************************************************************)
EXTENDS Integers, Sequences, FiniteSets, TLC

(***************************************************************************)
(* Tokens                                                                  *)
(***************************************************************************)
Tok(t, s, c, i) == [t |-> t, s |-> s, c |-> c, i |-> i]
Txt(s) == Tok("txt", s, 0, 0)          \* a run of text
NL == Tok("nl", "", 0, 0)               \* paragraph mark / "\n"
WS == Tok("ws", " ", 0, 0)              \* a blank
PB == Tok("pb", "", 0, 0)               \* page break
SB == Tok("sb", "", 0, 0)               \* section break (next page)
PH == Tok("ph", "___", 0, 0)            \* the placeholder "___"
CellEnd == Tok("cell", "", 0, 0)        \* end-of-cell mark of a table
Img(c, i) == Tok("img", "", c, i)       \* inline picture of file Fig c.i
FigLabel(c, i) == Tok("fig", "Fig", c, i)   \* the text "Fig c.i"

(***************************************************************************)
(* Sequence helpers                                                        *)
(***************************************************************************)
IsPrefix(p, q) == Len(p) <= Len(q) /\ SubSeq(q, 1, Len(p)) = p

RECURSIVE DigitsOf(_)
\* str(n) for n >= 0, as a sequence of one-character strings
DigitsOf(n) ==
    LET d == <<"0","1","2","3","4","5","6","7","8","9">>[(n % 10) + 1]
    IN  IF n < 10 THEN <<d>> ELSE DigitsOf(n \div 10) \o <<d>>

DigitVal(s) == CHOOSE k \in 0..9 : DigitsOf(k) = <<s>>
IsDigit(s) == \E k \in 0..9 : DigitsOf(k) = <<s>>

RECURSIVE IntOf(_)
\* int(s) for a non-empty sequence of digits
IntOf(ds) ==
    IF Len(ds) = 1 THEN DigitVal(ds[1])
    ELSE 10 * IntOf(SubSeq(ds, 1, Len(ds) - 1)) + DigitVal(ds[Len(ds)])

(***************************************************************************)
(* Bookmark names.  f"Chapter{i}Title" formats i in decimal.               *)
(***************************************************************************)
Nm(w) == <<w>>
Var(w, k) == <<w, "_">> \o DigitsOf(k)          \* e.g. Department_10
Ack(w) == <<w, "_", "Ack">>                     \* e.g. GuideName_Ack
ChTitle(i) == <<"Chapter">> \o DigitsOf(i) \o <<"Title">>
ChTitle2(i) == ChTitle(i) \o <<"_", "2">>
ChTitle3(i) == ChTitle(i) \o <<"_", "3">>
ChContent(i) == <<"Chapter">> \o DigitsOf(i) \o <<"Content">>
ChPage(i) == <<"Chapter">> \o DigitsOf(i) \o <<"Page">>
RefPage == <<"RefPage">>
References == <<"References">>
Part1End == <<"Part1End">>

(***************************************************************************)
(* The host's document object model: text edits and what they do to the    *)
(* ranges (bookmarks and live Range objects) that other code holds.        *)
(*  - text inserted at p moves every range boundary behind p; a range that *)
(*    starts at p moves as a whole, a range that ends at p does not grow,  *)
(*    and a collapsed range at p stays in front of the new text;           *)
(*  - deleting [s, e) pulls boundaries inside it back to s; a bookmark all *)
(*    of whose text is deleted is deleted with it.                         *)
(***************************************************************************)
InsPos(r, p, k) ==
    IF r[1] = r[2]
    THEN IF p < r[1] THEN <<r[1] + k, r[2] + k>> ELSE r
    ELSE <<IF p <= r[1] THEN r[1] + k ELSE r[1],
           IF p < r[2] THEN r[2] + k ELSE r[2]>>

DelAt(x, s, e) == IF x <= s THEN x ELSE IF x >= e THEN x - (e - s) ELSE s

DelPos(r, s, e) == <<DelAt(r[1], s, e), DelAt(r[2], s, e)>>

\* the bookmark over r loses all of its text when [s, e) is deleted
Swallowed(r, s, e) ==
    /\ s < e
    /\ s <= r[1]
    /\ r[2] <= e
    /\ ~(r[1] = r[2] /\ (r[1] = s \/ r[1] = e))

InsertAt(doc, p, toks) ==
    SubSeq(doc, 1, p) \o toks \o SubSeq(doc, p + 1, Len(doc))

RemoveAt(doc, s, e) == SubSeq(doc, 1, s) \o SubSeq(doc, e + 1, Len(doc))

\* A document state is [doc, bms, secs, live]: the tokens, the Bookmarks
\* collection as a set of [name, s, e], the sections' settings, and the
\* Range objects that the running call holds (they follow the edits as
\* bookmarks do, but are never deleted).
Bm(name, r) == [name |-> name, s |-> r[1], e |-> r[2]]

BmRange(b) == <<b.s, b.e>>

InsertText(d, p, toks) ==
    [d EXCEPT !.doc = InsertAt(d.doc, p, toks),
              !.bms = {Bm(b.name, InsPos(BmRange(b), p, Len(toks))) : b \in d.bms},
              !.live = {Bm(b.name, InsPos(BmRange(b), p, Len(toks))) : b \in d.live}]

DeleteText(d, s, e) ==
    [d EXCEPT !.doc = RemoveAt(d.doc, s, e),
              !.bms = {Bm(b.name, DelPos(BmRange(b), s, e)) :
                          b \in {x \in d.bms : ~Swallowed(BmRange(x), s, e)}},
              !.live = {Bm(b.name, DelPos(BmRange(b), s, e)) : b \in d.live}]

\* range.Text = toks for the range [s, e]
SetRangeText(d, s, e, toks) == InsertText(DeleteText(d, s, e), s, toks)

BookmarkNames(d) == {b.name : b \in d.bms}

BookmarksExists(d, name) == name \in BookmarkNames(d)

\* doc.Bookmarks(name).Range
BookmarkRange(d, name) == BmRange(CHOOSE b \in d.bms : b.name = name)

\* doc.Bookmarks.Add(name, range): an existing bookmark of that name moves
BookmarksAdd(d, name, s, e) ==
    [d EXCEPT !.bms = {b \in d.bms : b.name # name} \cup {Bm(name, <<s, e>>)}]

RangeText(d, s, e) == SubSeq(d.doc, s + 1, e)

BookmarkText(d, name) ==
    RangeText(d, BookmarkRange(d, name)[1], BookmarkRange(d, name)[2])

ContentEnd(d) == Len(d.doc)

\* doc.Sections.Count: one more than the section breaks
CountTok(seq, t) == Cardinality({k \in 1..Len(seq) : seq[k].t = t})

SectionsCount(d) == CountTok(d.doc, "sb") + 1

(***************************************************************************)
(* Scaffolding: formatting.add_bookmark and the two generators of          *)
(* content_static.  Static text between placeholders is one Txt token.     *)
(***************************************************************************)
\* Selection.TypeText at the end of the document (in front of the final
\* paragraph mark), where both generators keep the cursor
TypeAtEnd(d, toks) == InsertText(d, ContentEnd(d) - 1, toks)

\* add_bookmark: type the placeholder, then bookmark the span just typed
add_bookmark(d, name, placeholder) ==
    LET d1 == TypeAtEnd(d, placeholder)
        sel == ContentEnd(d1) - 1
        bm_start == sel - Len(placeholder)
    IN  BookmarksAdd(d1, name, bm_start, bm_start + Len(placeholder))

\* A script step either types text (bm = <<>>) or adds a bookmark over a
\* freshly typed placeholder.
Type(toks) == [bm |-> <<>>, toks |-> toks]
Mark(name, placeholder) == [bm |-> name, toks |-> placeholder]

ScriptStep(d, st) ==
    IF st.bm = <<>> THEN TypeAtEnd(d, st.toks)
    ELSE add_bookmark(d, st.bm, st.toks)

RECURSIVE RunSteps(_, _, _)
\* the steps k, k+1, ... of the script, in order
RunSteps(d, script, k) ==
    IF k > Len(script) \/ ContentEnd(d) = 0 THEN d
    ELSE RunSteps(ScriptStep(d, script[k]), script, k + 1)

RunScript(d, script) == RunSteps(d, script, 1)

S == Txt("~")    \* a run of static text

Part1Script ==
    << \* title page
       Type(<<S, NL>>), Mark(Nm("ProjectTitle"), <<PH, NL>>),
       Type(<<S, NL, S>>), Mark(Nm("Department"), <<PH>>),
       Type(<<NL, S, NL>>), Mark(Nm("NameAndUSN"), <<PH, NL>>),
       Type(<<S>>), Mark(Nm("GuideName"), <<PH>>),
       Type(<<S>>), Mark(Nm("Designation"), <<PH>>),
       Type(<<S, NL>>), Mark(Var("Department", 2), <<PH, NL>>),
       Type(<<S, PB>>),
       \* certificate page
       Type(<<S, NL>>), Mark(Var("Department", 3), <<PH, NL>>),
       Type(<<NL, S, NL, S>>), Mark(Var("ProjectTitle", 2), <<PH>>),
       Type(<<S>>), Mark(Var("NameAndUSN", 2), <<PH, NL>>),
       Type(<<S>>), Mark(Var("Department", 4), <<PH>>),
       Type(<<S>>), Mark(Nm("Year"), <<PH>>),
       Type(<<S>>),
       \* signature table, row by row
       Mark(Var("GuideName", 2), <<PH>>), Type(<<CellEnd>>),
       Mark(Var("Department", 5), <<PH>>), Type(<<CellEnd, S, CellEnd>>),
       Mark(Var("Designation", 2), <<PH>>), Type(<<CellEnd, S, CellEnd>>),
       Mark(Var("Department", 6), <<PH>>), Type(<<S, CellEnd>>),
       Mark(Var("Department", 7), <<PH>>), Type(<<S, CellEnd, S, NL>>),
       \* acknowledgement page
       Type(<<PB, S, NL, S>>), Mark(Ack("ProjectTitle"), <<PH>>),
       Type(<<S, NL, S>>), Mark(Ack("HODName"), <<PH>>),
       Type(<<S>>), Mark(Var("Department", 9), <<PH>>),
       Type(<<S, NL, S>>), Mark(Ack("GuideName"), <<PH>>),
       Type(<<S>>), Mark(Ack("Designation"), <<PH>>),
       Type(<<S, PB>>),
       \* abstract page, and the section break that ends Part 1
       Type(<<S, NL>>), Mark(Nm("Abstract"), <<PH>>) >>

\* A section's page-number and header/footer settings.
NewSection ==
    [header |-> <<>>, footer |-> <<>>, firstFooter |-> <<>>,
     linked |-> FALSE, diffFirst |-> FALSE,
     restart |-> FALSE, start |-> 0, style |-> "arabic", pageNumbers |-> 0]

\* word.Documents.Add(): one section holding the final paragraph mark
EmptyDocument ==
    [doc |-> <<NL>>, bms |-> {}, secs |-> <<NewSection>>, live |-> {}]


\* the offset just behind the k-th token of type t
NthTok(seq, t, k) ==
    CHOOSE x \in 1..Len(seq) :
        seq[x].t = t /\ CountTok(SubSeq(seq, 1, x), t) = k

\* doc.Sections(k).Range as <<start, end>>
SectionRange(d, k) ==
    LET s == IF k = 1 THEN 0 ELSE NthTok(d.doc, "sb", k - 1)
        e == IF k = SectionsCount(d) THEN ContentEnd(d)
             ELSE NthTok(d.doc, "sb", k)
    IN  <<s, e>>

\* a section break typed at the end opens a section that starts out with
\* the settings of the one it splits and is linked to it
TypeSectionBreak(d) ==
    LET d1 == TypeAtEnd(d, <<SB>>)
    IN  [d1 EXCEPT !.secs = Append(d.secs,
                       [d.secs[Len(d.secs)] EXCEPT !.linked = TRUE])]

\* Part 1 ends with a section break and the marker bookmark behind it
generate_static_pages_part1(d) ==
    LET d1 == TypeSectionBreak(RunScript(d, Part1Script))
    IN  BookmarksAdd(d1, Part1End, ContentEnd(d1) - 1, ContentEnd(d1) - 1)

TocRow(i) == <<Type(<<Txt("no"), CellEnd>>), Mark(ChTitle(i), <<PH>>),
               Type(<<CellEnd>>), Mark(ChPage(i), <<PH>>),
               Type(<<CellEnd, CellEnd>>)>>

RECURSIVE TocRows(_, _)
TocRows(i, n) == IF i > n THEN <<>> ELSE TocRow(i) \o TocRows(i + 1, n)

TocScript(n) ==
    <<Type(<<S, CellEnd, S, CellEnd, S, CellEnd, CellEnd>>)>>
    \o TocRows(1, n)
    \o <<Type(<<Txt("no"), CellEnd, Txt("References"), CellEnd>>),
         Mark(RefPage, <<PH>>), Type(<<CellEnd, CellEnd, NL>>)>>

ChapterScript(i) ==
    <<Type(<<Txt("blank lines"), Txt("Chapter"), NL>>),
      Mark(ChTitle2(i), <<PH>>), Type(<<NL, PB>>),
      Mark(ChTitle3(i), <<PH>>), Type(<<NL>>),
      Mark(ChContent(i), <<PH>>), Type(<<NL>>)>>

RECURSIVE BuildChapters(_, _, _)
BuildChapters(d, i, n) ==
    IF i > n \/ ContentEnd(d) = 0 THEN d
    ELSE BuildChapters(RunScript(TypeSectionBreak(d), ChapterScript(i)),
                       i + 1, n)

ReferencesScript ==
    <<Type(<<Txt("REFERENCES"), NL>>), Mark(References, <<PH>>)>>

PageField == Tok("field", "PAGE", 0, 0)

\* variant: the sections keep the settings they have
SectionSetupNone(sec, idx, total, num_chapters) == sec

\* the settings page_numbers_dynamic gives section idx of total
SectionSetup(sec, idx, total, num_chapters) ==
    LET s0 == IF idx > 1 THEN [sec EXCEPT !.linked = FALSE] ELSE sec
        s1 == IF idx = 2
              THEN [s0 EXCEPT !.diffFirst = FALSE, !.restart = TRUE,
                              !.start = 1, !.style = "roman",
                              !.pageNumbers = @ + 1]
              ELSE s0
        s2 == IF 3 <= idx /\ idx <= 2 + num_chapters
              THEN [s1 EXCEPT !.diffFirst = TRUE, !.style = "arabic",
                              !.restart = (idx = 3),
                              !.start = IF idx = 3 THEN 1 ELSE @,
                              !.pageNumbers = @ + 1,
                              !.firstFooter = <<>>]
              ELSE s1
        s3 == IF idx = total /\ idx > 2 + num_chapters
              THEN [s2 EXCEPT !.diffFirst = FALSE, !.linked = FALSE,
                              !.style = "arabic", !.restart = FALSE,
                              !.footer = <<PageField>>]
              ELSE s2
    IN  IF idx = 1
        THEN [sec EXCEPT !.footer = <<>>, !.header = <<>>,
                         !.firstFooter = <<>>]
        ELSE s3

\* variant: the text goes in front of the mark that ends the section
InsertAfterInside(d, idx) == SectionRange(d, idx)[2] - 1

\* where sec.Range.InsertAfter puts its text: behind the section break that
\* ends the section, in front of the final paragraph mark for the last one
InsertAfterPos(d, idx) ==
    LET e == SectionRange(d, idx)[2]
    IN  IF e = ContentEnd(d) THEN e - 1 ELSE e

RECURSIVE PageNumbersLoop(_, _, _, _)
PageNumbersLoop(d, idx, total, num_chapters) ==
    IF idx > total \/ ContentEnd(d) = 0 THEN d
    ELSE LET at == InsertAfterPos(d, idx)
             d1 == InsertText(d, at, <<NL>>)      \* sec.Range.InsertAfter("\r")
             d2 == [d1 EXCEPT !.secs[idx] =
                        SectionSetup(@, idx, total, num_chapters)]
         IN  PageNumbersLoop(d2, idx + 1, total, num_chapters)

page_numbers_dynamic(d, num_chapters) ==
    PageNumbersLoop(d, 1, SectionsCount(d), num_chapters)

generate_static_pages_part2(d, num_chapters) ==
    LET p == SectionRange(d, 2)[1]
        d1 == InsertText(d, p, <<NL>>)
        d2 == InsertText(d1, p, <<Txt("Table of Contents"), NL>>)
        d3 == RunScript(d2, TocScript(num_chapters))
        d4 == BuildChapters(d3, 1, num_chapters)
        d5 == RunScript(TypeSectionBreak(d4), ReferencesScript)
    IN  page_numbers_dynamic(d5, num_chapters)

\* generate_static_pages_part2 when a host call raises behind the table of
\* contents: what is typed up to there stays in the document
generate_static_pages_part2_raising(d, num_chapters) ==
    LET p == SectionRange(d, 2)[1]
        d1 == InsertText(d, p, <<NL>>)
        d2 == InsertText(d1, p, <<Txt("Table of Contents"), NL>>)
    IN  RunScript(d2, TocScript(num_chapters))

\* variant: the old tail is kept
keep_part2_content(d) == d

\* Deleting up to the end of the document leaves the final paragraph mark,
\* which carries the settings of the last section.
delete_part2_content(d) ==
    IF ~BookmarksExists(d, Part1End) THEN d
    ELSE LET part1_end == BookmarkRange(d, Part1End)[2]
             doc_end == ContentEnd(d)
             d1 == DeleteText(d, part1_end, doc_end - 1)
             cnt == SectionsCount(d1)
         IN  IF part1_end >= doc_end - 1 THEN d
             ELSE [d1 EXCEPT !.secs = SubSeq(d.secs, 1, cnt - 1)
                                      \o <<d.secs[Len(d.secs)]>>]

(***************************************************************************)
(* images.py: figure placement                                             *)
(***************************************************************************)
PageHeight == 842          \* doc.PageSetup.PageHeight of the new document
BottomMargin == 48         \* cm_to_pt(1.7), in whole points
caption_buffer == 60
max_width_pt == 450
fallback_height_pt == 200

Min(a, b) == IF a < b THEN a ELSE b
Max(a, b) == IF a > b THEN a ELSE b

\* variant: an unreadable file keeps the initial estimate of 0
height_without_fallback(img) ==
    IF img.w = 0 THEN 0
    ELSE (Min(3 * img.w, 4 * 450) * img.h) \div (4 * img.w)

\* An image file is [c, i, w, h]: "Fig c.i.png" of w x h pixels; w = 0 is a
\* file that PIL cannot read.  0.75 pt per pixel, at most max_width_pt wide.
target_height_pt(img) ==
    IF img.w = 0 THEN fallback_height_pt
    ELSE (Min(3 * img.w, 4 * max_width_pt) * img.h) \div (4 * img.w)

\* what insert_range.Information(wdVerticalPositionRelativeToPage) answers
Reading(pos) == [ok |-> TRUE, pos |-> pos]
NoReading == [ok |-> FALSE, pos |-> 0]

\* variant: the break is taken as soon as the figure reaches the limit
NeedsBreakAtLimit(reading, height) ==
    /\ reading.ok
    /\ reading.pos + height + caption_buffer >= PageHeight - BottomMargin

\* the page-break decision; a failed query is caught and decides nothing
NeedsBreak(reading, height) ==
    /\ reading.ok
    /\ reading.pos + height + caption_buffer > PageHeight - BottomMargin

RECURSIVE SortByIndex(_)
\* sorted(asset_dir.glob(...), key=extract_figure_index)
SortByIndex(files) ==
    IF files = {} THEN <<>>
    ELSE LET m == CHOOSE a \in files : \A b \in files : a.i <= b.i
         IN  <<m>> \o SortByIndex(files \ {m})

image_files(assets, chapter_num) ==
    SortByIndex({a \in assets : a.c = chapter_num})

\* the indices j of the matches of "Fig {chapter_num}\.(\d+)" in a text
existing_indices(text, chapter_num) ==
    {text[k].i : k \in {x \in 1..Len(text) :
                          text[x].t = "fig" /\ text[x].c = chapter_num}}

\* variant: no label is ever found, so nothing is skipped
LabelNever(text, c, i) == FALSE

\* f"Fig {c}.{i}" in text: a substring test, so "Fig 1.1" is in "Fig 1.10"
LabelIn(text, c, i) ==
    \E k \in 1..Len(text) :
        /\ text[k].t = "fig"
        /\ text[k].c = c
        /\ IsPrefix(DigitsOf(i), DigitsOf(text[k].i))

SetMax(set) == CHOOSE m \in set : \A x \in set : x <= m
SetMin(set) == CHOOSE m \in set : \A x \in set : m <= x

ParaMarks == {"nl", "sb", "cell"}

\* the end of the paragraph that holds offset p
ParagraphEnd(d, p) ==
    LET ends == {k \in (p + 1)..ContentEnd(d) : d.doc[k].t \in ParaMarks}
    IN  IF ends = {} THEN ContentEnd(d) ELSE SetMin(ends)

\* variant: the cursor stays at the end of the chapter's text
AtChapterEnd(d, s, e, chapter_num, chapter_end) == chapter_end

\* where the cursor goes when the zone [s, e] already holds captions: behind
\* the paragraph of the first text that Find matches for the last label
AfterLastLabel(d, s, e, chapter_num, chapter_end) ==
    LET text == RangeText(d, s, e)
        idx == existing_indices(text, chapter_num)
        hits == {k \in (s + 1)..e :
                    LabelIn(<<d.doc[k]>>, chapter_num, SetMax(idx))}
    IN  IF idx = {} \/ hits = {} THEN chapter_end
        ELSE ParagraphEnd(d, SetMin(hits))

FigureTokens(img, break) ==
    (IF break THEN <<PB>> ELSE <<>>)
    \o <<Img(img.c, img.i), NL, FigLabel(img.c, img.i), NL>>

RECURSIVE InsertionLoop(_, _, _, _, _, _)
\* the loop over image_files from its k-th entry on, the cursor at cur
InsertionLoop(d, cur, files, k, existing_text, oracle) ==
    IF k > Len(files) \/ ContentEnd(d) = 0 THEN d
    ELSE LET img == files[k]
             toks == FigureTokens(img,
                         NeedsBreak(oracle[img.i], target_height_pt(img)))
         IN  IF LabelIn(existing_text, img.c, img.i)
             THEN InsertionLoop(d, cur, files, k + 1, existing_text, oracle)
             ELSE InsertionLoop(InsertText(d, cur, toks), cur + Len(toks),
                                files, k + 1, existing_text, oracle)

\* the boundary of the chapter: the next chapter's title or the document's end
chapter_limit(d, chapter_num) ==
    LET next_title == ChTitle2(chapter_num + 1)
    IN  IF BookmarksExists(d, next_title)
        THEN BookmarkRange(d, next_title)[1]
        ELSE ContentEnd(d)

\* start_end is start_range.End
insert_images_in_chapter(d, chapter_num, start_end, assets, oracle) ==
    LET files == image_files(assets, chapter_num)
        chapter_end == start_end
        safe_start == Min(chapter_end, chapter_limit(d, chapter_num))
        safe_end == Min(Max(chapter_end, chapter_limit(d, chapter_num)),
                        ContentEnd(d))
        existing_text == RangeText(d, safe_start, safe_end)
        cur == AfterLastLabel(d, safe_start, safe_end, chapter_num,
                              chapter_end)
    IN  IF files = <<>> THEN d
        ELSE InsertionLoop(d, cur, files, 1, existing_text, oracle)

(***************************************************************************)
(* Python dictionaries keep insertion order: a dict is a sequence of       *)
(* <<key, value>> with distinct keys; a value is a sequence of tokens.     *)
(***************************************************************************)
Keys(dict) == {dict[k][1] : k \in 1..Len(dict)}

IndexOf(dict, key) == CHOOSE k \in 1..Len(dict) : dict[k][1] = key

\* dict.get(key, default)
Get(dict, key, default) ==
    IF key \in Keys(dict) THEN dict[IndexOf(dict, key)][2] ELSE default

\* dict[key] = value: a key that is present keeps its place
Put(dict, key, value) ==
    IF key \in Keys(dict)
    THEN SubSeq(dict, 1, IndexOf(dict, key) - 1) \o <<<<key, value>>>>
         \o SubSeq(dict, IndexOf(dict, key) + 1, Len(dict))
    ELSE Append(dict, <<key, value>>)

Blank(tok) == tok.t \in {"ws", "nl"}

RECURSIVE strip(_)
\* str.strip()
strip(v) ==
    IF v = <<>> THEN v
    ELSE IF Blank(v[1]) THEN strip(Tail(v))
    ELSE IF Blank(v[Len(v)]) THEN strip(SubSeq(v, 1, Len(v) - 1))
    ELSE v

RECURSIVE inline_names(_)
\* value.replace("\n", ", ")
inline_names(v) ==
    IF v = <<>> THEN <<>>
    ELSE (IF v[1].t = "nl" THEN <<Txt(","), WS>> ELSE <<v[1]>>)
         \o inline_names(Tail(v))

(***************************************************************************)
(* content_dynamic.py: replace_bookmarks                                   *)
(***************************************************************************)
dept_short_forms ==
    ("COMPUTER SCIENCE AND ENGINEERING" :> "Dept. of CSE")
    @@ ("ELECTRONICS AND COMMUNICATION ENGINEERING" :> "Dept. of ECE")
    @@ ("INFORMATION SCIENCE AND ENGINEERING" :> "Dept. of ISE")
    @@ ("MECHANICAL ENGINEERING" :> "Dept. of ME")
    @@ ("CIVIL ENGINEERING" :> "Dept. of CE")
    @@ ("ELECTRONICS AND INSTRUMENTATION ENGINEERING" :> "Dept. of EIE")
    @@ ("ARTIFICIAL INTELLIGENCE AND MACHINE LEARNING" :> "Dept. of AIML")
    @@ ("ELECTRICAL AND ELECTRONICS ENGINEERING" :> "Dept. of EEE")

hod_titles ==
    ("COMPUTER SCIENCE AND ENGINEERING" :> "Dr. Chayadevi M.L")
    @@ ("ELECTRONICS AND COMMUNICATION ENGINEERING" :> "Dr. P. A. Vijaya")
    @@ ("INFORMATION SCIENCE AND ENGINEERING" :> "Dr. S. Srividhya")
    @@ ("MECHANICAL ENGINEERING" :> "Dr. B.S. Anil Kumar")
    @@ ("CIVIL ENGINEERING" :> "Dr. S.B. Anadinni")
    @@ ("ELECTRONICS AND INSTRUMENTATION ENGINEERING" :> "Dr. K.S. Jyothi")
    @@ ("ARTIFICIAL INTELLIGENCE AND MACHINE LEARNING" :> "Dr. Saritha Chakrasali")
    @@ ("ELECTRICAL AND ELECTRONICS ENGINEERING" :> "Dr. R.V. Parimala")

\* variant: table.get(value, "")
LookupNoFallback(table, v) ==
    IF Len(v) = 1 /\ v[1].t = "txt" /\ v[1].s \in DOMAIN table
    THEN <<Txt(table[v[1].s])>>
    ELSE <<>>

\* table.get(value, value) for a value that is one run of text
Lookup(table, v) ==
    IF Len(v) = 1 /\ v[1].t = "txt" /\ v[1].s \in DOMAIN table
    THEN <<Txt(table[v[1].s])>>
    ELSE v

department_value(data_dict) == strip(Get(data_dict, Nm("Department"), <<>>))

\* the entries derived from the one Department input, in insertion order
DepartmentEntries(data_dict) ==
    LET dv == department_value(data_dict)
        hod_value == Lookup(hod_titles, dv)
        short_form == Lookup(dept_short_forms, dv)
    IN  IF dv = <<>> THEN <<>>
        ELSE << <<Var("Department", 5), hod_value>>,
                <<Var("Department", 8), dv>>,
                <<Var("Department", 6), short_form>>,
                <<Var("Department", 7), short_form>>,
                <<Var("Department", 9), dv>>,
                <<Var("Department", 10), dv>>,
                <<Nm("Department"), dv>>,
                <<Var("Department", 4), dv>>,
                <<Ack("HODName"), hod_value>>,
                <<Ack("ProjectTitle"),
                  Get(data_dict, Nm("ProjectTitle"), <<>>)>>,
                <<Ack("GuideName"), Get(data_dict, Nm("GuideName"), <<>>)>>,
                <<Ack("Designation"),
                  Get(data_dict, Nm("Designation"), <<>>)>> >>

RECURSIVE CarryOver(_, _, _)
\* the loop that carries the other keys over, from the k-th item on
CarryOver(td, data_dict, k) ==
    IF k > Len(data_dict) \/ Len(td) < 0 THEN td
    ELSE LET key == data_dict[k][1]
             value == data_dict[k][2]
             t1 == IF key = Nm("NameAndUSN")
                   THEN Put(td, Var("NameAndUSN", 2), inline_names(value))
                   ELSE td
         IN  IF key = Nm("Department")
             THEN CarryOver(td, data_dict, k + 1)
             ELSE CarryOver(Put(t1, key, value), data_dict, k + 1)

transformed_data(data_dict) ==
    CarryOver(DepartmentEntries(data_dict), data_dict, 1)

newline_bookmark_names ==
    {Nm("ProjectTitle"), Nm("NameAndUSN"),
     Var("Department", 2), Var("Department", 3)}
    \cup {ChTitle(i) : i \in 1..5} \cup {ChContent(i) : i \in 1..5}

\* re.match(r"Chapter(\d)Content", name)
chapter_match(name) ==
    /\ Len(name) >= 3
    /\ name[1] = "Chapter"
    /\ IsDigit(name[2])
    /\ name[3] = "Content"

RECURSIVE ByStart(_)
\* bookmarks in the order of the collection
ByStart(marks) ==
    IF marks = {} THEN <<>>
    ELSE LET m == CHOOSE a \in marks : \A b \in marks : a.s <= b.s
         IN  <<m.name>> \o ByStart(marks \ {m})

\* variant: the key NameUSN is taken for NameAndUSN
matches_alias(key, name) ==
    IsPrefix(key, name) \/ (key = Nm("NameUSN") /\ name = Nm("NameAndUSN"))

\* bm.startswith(key)
matches(key, name) == IsPrefix(key, name)

RECURSIVE Worklist(_, _, _)
\* the pairs (key, bookmark name) the two nested loops visit, in order
Worklist(td, marks, k) ==
    IF k > Len(td) THEN <<>>
    ELSE LET key == td[k][1]
             matching_bms == ByStart({b \in marks : matches(key, b.name)})
         IN  [j \in 1..Len(matching_bms) |->
                 [key |-> key, value |-> td[k][2], name |-> matching_bms[j]]]
             \o Worklist(td, marks, k + 1)

\* value + ("\n" if add_newline else "")
insert_text(name, value) ==
    value \o (IF name \in newline_bookmark_names THEN <<NL>> ELSE <<>>)

\* variant: the prefix key never stands back
NoOwnEntry(name, key, keys) == FALSE

\* a key that is only a prefix of the name leaves the region to the name's
\* own entry
HasOwnEntry(name, key, keys) == name # key /\ name \in keys

\* variant: the range handed to the re-registration misses the new text
new_range_collapsed(bm_start, text) == <<bm_start, bm_start>>

\* doc.Range(bm_start, bm_start + len(insert_text))
new_range(bm_start, text) == <<bm_start, bm_start + Len(text)>>

\* the inner loop's body up to rebookmarks.append: the text is set, which
\* unregisters the bookmark, and the new range is kept for later
AfterText(d, w) ==
    LET r == BookmarkRange(d, w.name)
        text == insert_text(w.name, w.value)
        d1 == SetRangeText(d, r[1], r[2], text)
    IN  [d1 EXCEPT !.live = @ \cup {Bm(w.name, new_range(r[1], text))}]

\* the inner loop's body runs to the end for this pair
Replaces(d, w, keys) ==
    BookmarksExists(d, w.name) /\ ~HasOwnEntry(w.name, w.key, keys)

\* one pass of the inner loop's body
ReplaceOne(d, w, keys, assets, oracle) ==
    IF ~Replaces(d, w, keys) THEN d
    ELSE IF chapter_match(w.name)
    THEN insert_images_in_chapter(
             AfterText(d, w), DigitVal(w.name[2]),
             new_range(BookmarkRange(d, w.name)[1],
                       insert_text(w.name, w.value))[2],
             assets, oracle)
    ELSE AfterText(d, w)

RECURSIVE PlacementCalls(_, _, _, _, _, _, _)
\* the documents that insert_images_in_chapter is called on during the
\* loop, each with the name of the region just replaced
PlacementCalls(d, work, k, keys, assets, oracle, acc) ==
    IF k > Len(work) \/ ContentEnd(d) = 0 THEN acc
    ELSE PlacementCalls(
             ReplaceOne(d, work[k], keys, assets, oracle),
             work, k + 1, keys, assets, oracle,
             IF Replaces(d, work[k], keys) /\ chapter_match(work[k].name)
             THEN Append(acc,
                      [d |-> AfterText(d, work[k]),
                       name |-> work[k].name,
                       chapter_num |-> DigitVal(work[k].name[2]),
                       start_end |->
                           new_range(BookmarkRange(d, work[k].name)[1],
                                     insert_text(work[k].name,
                                                 work[k].value))[2]])
             ELSE acc)

RECURSIVE ReplacementLoop(_, _, _, _, _, _)
ReplacementLoop(d, work, k, keys, assets, oracle) ==
    IF k > Len(work) \/ ContentEnd(d) = 0 THEN d
    ELSE ReplacementLoop(ReplaceOne(d, work[k], keys, assets, oracle),
                         work, k + 1, keys, assets, oracle)

\* variant: the regions are not registered again
ReAddNothing(d) == [d EXCEPT !.live = {}]

\* the loop over rebookmarks
ReAddBookmarks(d) ==
    [d EXCEPT !.bms = {b \in d.bms : b.name \notin {x.name : x \in d.live}}
                      \cup d.live,
              !.live = {}]

DeptFooter == Txt("Dept. of CSE, BNMIT")

\* headers and footers of the sections from the third on
UpdateHeaderFooter(sec, idx, title, year) ==
    IF idx <= 2 THEN sec
    ELSE [sec EXCEPT !.linked = FALSE,
                     !.header = IF title # <<>> THEN title ELSE @,
                     !.footer = <<DeptFooter>> \o year \o <<PageField>>]

replace_bookmarks(d, data_dict, assets, oracle) ==
    LET td == transformed_data(data_dict)
        work == Worklist(td, d.bms, 1)
        d1 == ReAddBookmarks(
                  ReplacementLoop(d, work, 1, Keys(td), assets, oracle))
        title == Get(data_dict, Nm("ProjectTitle"), <<>>)
        year == Get(data_dict, Nm("Year"), <<>>)
    IN  IF title # <<>> \/ year # <<>>
        THEN [d1 EXCEPT !.secs = [idx \in 1..Len(d1.secs) |->
                            UpdateHeaderFooter(d1.secs[idx], idx, title, year)]]
        ELSE d1

\* variant: the first failing doc.Bookmarks.Add ends the loop over rebookmarks
ReAddNoneOnFailure(d, failing) ==
    IF {x \in d.live : x.name \in failing} # {} THEN [d EXCEPT !.live = {}]
    ELSE ReAddBookmarks(d)

\* the loop over rebookmarks when doc.Bookmarks.Add raises for the names in
\* failing: the except clause reports the name and the loop goes on
ReAddBookmarksExcept(d, failing) ==
    LET added == {x \in d.live : x.name \notin failing}
    IN  [d EXCEPT !.bms = {b \in d.bms : b.name \notin {x.name : x \in added}}
                          \cup added,
                  !.live = {}]

\* replace_bookmarks on a host whose Bookmarks.Add raises for some names
replace_bookmarks_failing(d, data_dict, assets, oracle, failing) ==
    LET td == transformed_data(data_dict)
        work == Worklist(td, d.bms, 1)
        d1 == ReAddBookmarksExcept(
                  ReplacementLoop(d, work, 1, Keys(td), assets, oracle),
                  failing)
        title == Get(data_dict, Nm("ProjectTitle"), <<>>)
        year == Get(data_dict, Nm("Year"), <<>>)
    IN  IF title # <<>> \/ year # <<>>
        THEN [d1 EXCEPT !.secs = [idx \in 1..Len(d1.secs) |->
                            UpdateHeaderFooter(d1.secs[idx], idx, title, year)]]
        ELSE d1

(***************************************************************************)
(* content_dynamic.py: update_index_page_numbers                           *)
(***************************************************************************)
\* a run of text long enough to spill onto a following page
Long(s) == Tok("txt", s, 0, 1)

\* the page breaks, manual and automatic, in a stretch of the document
PageBreaks(seq) ==
    Cardinality({k \in 1..Len(seq) :
                    \/ seq[k].t \in {"pb", "sb"}
                    \/ seq[k].t = "txt" /\ seq[k].i = 1})

\* the section that holds offset p
SectionAt(d, p) == CountTok(SubSeq(d.doc, 1, p), "sb") + 1

\* range.Information(wdActiveEndAdjustedPageNumber) of a range ending at p:
\* the number as printed, counted from the last section at or before p
\* that restarts the numbering
AdjustedPageNumber(d, p) ==
    LET k == SectionAt(d, p)
        from == {j \in 1..k : d.secs[j].restart}
        j == IF from = {} THEN 1 ELSE SetMax(from)
        first == IF from = {} THEN 1 ELSE d.secs[j].start
    IN  first + PageBreaks(SubSeq(d.doc, SectionRange(d, j)[1] + 1, p))

RECURSIVE TextOf(_)
\* a string of digits as text, one token per character
TextOf(ds) == IF ds = <<>> THEN <<>> ELSE <<Txt(Head(ds))>> \o TextOf(Tail(ds))

\* str(page_number)
PageText(n) == TextOf(DigitsOf(n))

\* the body shared by the chapter loop and the references step
WritePageNumber(d, target_bm, page_bm) ==
    LET page_number == AdjustedPageNumber(d, BookmarkRange(d, target_bm)[2])
        r == BookmarkRange(d, page_bm)
        bm_start == r[1]
        d1 == SetRangeText(d, r[1], r[2], PageText(page_number))
    IN  IF BookmarksExists(d, target_bm) /\ BookmarksExists(d, page_bm)
        THEN BookmarksAdd(d1, page_bm, bm_start,
                          bm_start + Len(PageText(page_number)))
        ELSE d

RECURSIVE ChapterPagesLoop(_, _, _)
\* for i in range(first, last + 1)
ChapterPagesLoop(d, i, last) ==
    IF i > last \/ ContentEnd(d) = 0 THEN d
    ELSE ChapterPagesLoop(WritePageNumber(d, ChTitle2(i), ChPage(i)),
                          i + 1, last)

update_index_page_numbers(d) ==
    WritePageNumber(ChapterPagesLoop(d, 1, 5), References, RefPage)

(***************************************************************************)
(* generator.py                                                            *)
(***************************************************************************)
\* initialize(): a new document with Part 1, or no document
initialize == generate_static_pages_part1(EmptyDocument)

\* variant: the flag is raised whether or not there is a document
flag_always(has_doc, was_finalized) == TRUE

\* _document_finalized after finalize_document: the early return of a call
\* without a document leaves the flag alone
flag_after(has_doc, was_finalized) == IF has_doc THEN TRUE ELSE was_finalized

\* finalize_document(num_chapters) on the document d
finalize_document(d, was_finalized, num_chapters) ==
    generate_static_pages_part2(
        IF was_finalized THEN delete_part2_content(d) ELSE d,
        num_chapters)

(***************************************************************************)
(* generator.save_document                                                 *)
(***************************************************************************)
\* variant: the page numbers are resolved before the bookmarks are replaced
steps_resolve_first == <<"finalize", "resolve", "replace", "fields", "save">>

\* the statements of the try block, in the order of the code
save_steps == <<"finalize", "replace", "resolve", "fields", "save">>

\* one statement of the try block on st = [d, finalized, built]
SaveStep(st, step, num_chapters, full_data, files, oracle) ==
    CASE step = "finalize" ->
            [d |-> finalize_document(st.d, st.finalized, num_chapters),
             finalized |-> TRUE, built |-> num_chapters]
      [] step = "replace" ->
            [st EXCEPT !.d = replace_bookmarks(@, full_data, files, oracle)]
      [] step = "resolve" ->
            [st EXCEPT !.d = update_index_page_numbers(@)]
      [] OTHER -> st

RECURSIVE RunSave(_, _, _, _, _, _, _)
\* the try block from its k-th statement on; the statement numbered fails
\* raises on its first access to Word and the rest is skipped
RunSave(st, k, fails, num_chapters, full_data, files, oracle) ==
    IF k > Len(save_steps) \/ k = fails \/ ContentEnd(st.d) = 0 THEN st
    ELSE RunSave(SaveStep(st, save_steps[k], num_chapters, full_data,
                          files, oracle),
                 k + 1, fails, num_chapters, full_data, files, oracle)

\* what save_document leaves: the document, the statements started, the
\* message box
save_document(st, fails, num_chapters, full_data, files, oracle) ==
    [st |-> RunSave(st, 1, fails, num_chapters, full_data, files, oracle),
     log |-> IF fails = 0 THEN save_steps ELSE SubSeq(save_steps, 1, fails),
     msg |-> IF fails = 0 THEN "Saved" ELSE "Error"]

\* the statements of save_document that may raise (0: none does)
FailPoints == {0, 3}

(***************************************************************************)
(* State                                                                   *)
(***************************************************************************)
VARIABLES
    doc, bms, secs,     \* generator.doc: text, Bookmarks, Sections
    docOk,              \* generator.doc is not None
    finalized,          \* generator._document_finalized
    assets,             \* the image files in ASSET_DIR
    built,              \* history: num_chapters of the last tail built
    hist,               \* history: the last call, the one before, and the
                        \* document the last call started from
    calls,              \* history: the number of calls made
    current_page,       \* App.current_page
    entries,            \* App.entries: the fields of a standard page
    chapter_tabs,       \* App.chapter_tabs
    user_inputs,        \* App.user_inputs, pages 1..6
    typed,              \* history: how often the user has typed
    removes,            \* history: how many tabs the user has removed
    backs,              \* history: how often the user has gone back
    log,                \* history: the steps save_document has started
    msg,                \* the message box save_document has shown last
    saves               \* history: the number of save_document calls

guiVars == <<current_page, entries, chapter_tabs, user_inputs, typed,
            removes, backs>>
saveVars == <<log, msg, saves>>

vars == <<doc, bms, secs, docOk, finalized, assets, built, hist, calls,
          guiVars, saveVars>>

\* the module's document as a document state, and back
TheDoc == [doc |-> doc, bms |-> bms, secs |-> secs, live |-> {}]

SetDoc(d) == doc' = d.doc /\ bms' = d.bms /\ secs' = d.secs

Called(op, n, data, reading) ==
    /\ hist' = [op |-> op, n |-> n, data |-> data, reading |-> reading,
                pre |-> [doc |-> doc, bms |-> bms, secs |-> secs],
                pop |-> hist.op, pn |-> hist.n, pdata |-> hist.data,
                tabs |-> chapter_tabs]
    /\ calls' = calls + 1

(***************************************************************************)
(* Inputs                                                                  *)
(***************************************************************************)
MaxCalls == 3
MaxChapters == 3

V(s) == <<Txt(s)>>

Fig11 == [c |-> 1, i |-> 1, w |-> 400, h |-> 400]

\* oracles that answer every query alike
Always(reading) == [i \in 1..12 |-> reading]

Oracles == {Always(Reading(0)), Always(Reading(PageHeight))}

Dicts ==
    { << <<Nm("Department"), V("MECHANICAL ENGINEERING")>> >>,
      << <<Nm("Department"), <<WS, Txt("ROBOTICS"), WS>> >>,
         <<Nm("GuideName"), V("G")>> >>,
      << <<Nm("Department"), <<WS>> >>, <<Nm("Designation"), <<>> >> >>,
      << <<Nm("NameAndUSN"), <<Txt("a"), NL, Txt("b")>> >>,
         <<Var("NameAndUSN", 2), V("ab")>> >>,
      << <<Var("NameAndUSN", 2), V("ab")>>,
         <<Nm("NameAndUSN"), <<Txt("a"), NL, Txt("b")>> >> >>,
      << <<Nm("ProjectTitle"), V("T")>>, <<Var("ProjectTitle", 2), V("U")>>,
         <<Nm("Department"), V("ROBOTICS")>> >>,
      << <<ChTitle(1), V("t1")>>, <<ChContent(1), <<Long("c1")>> >>,
         <<Nm("Year"), V("2025")>>, <<Nm("Chapter"), V("x")>> >>,
      << <<Nm("Sem"), V("5")>>, <<Nm("Abstract"), V("abs")>>,
         <<Nm("NameUSN"), V("n")>> >>,
      << <<Nm("ProjectTitle"), V("P")>> >>,
      << <<ChTitle(2), V("t2")>>, <<ChContent(1), <<Long("c1")>> >> >> }

\* what save_document is called with through the interface
SavedChapters == 2

SavedData ==
    << <<Nm("ProjectTitle"), V("T")>>, <<ChTitle(1), V("t1")>>,
       <<ChContent(1), <<Long("c1")>> >>, <<References, V("refs")>> >>

(***************************************************************************)
(* The calls of the backend's interface                                    *)
(***************************************************************************)
NoCall == [op |-> "none", n |-> 0, data |-> <<>>, reading |-> NoReading,
           pre |-> [doc |-> <<>>, bms |-> {}, secs |-> <<>>],
           pop |-> "none", pn |-> 0, pdata |-> <<>>, tabs |-> <<>>,
           flash |-> "none"]

\* no window: the interface is driven without the GUI
NoGui ==
    /\ current_page = 0
    /\ entries = <<>>
    /\ chapter_tabs = <<>>
    /\ user_inputs = <<>>
    /\ typed = 0
    /\ removes = 0
    /\ backs = 0
    /\ log = <<>>
    /\ msg = "none"
    /\ saves = 0

\* after generator.initialize(), which leaves doc = None when Word fails
InitApi ==
    /\ docOk \in BOOLEAN
    /\ LET d == IF docOk THEN initialize
                ELSE [doc |-> <<>>, bms |-> {}, secs |-> <<>>]
       IN  doc = d.doc /\ bms = d.bms /\ secs = d.secs
    /\ finalized = FALSE
    /\ assets = {Fig11}
    /\ built = 0
    /\ hist = NoCall
    /\ calls = 0
    /\ NoGui

FinalizeDocument(n) ==
    /\ calls < MaxCalls
    /\ Called("finalize", n, <<>>, NoReading)
    /\ IF docOk
       THEN /\ SetDoc(finalize_document(TheDoc, finalized, n))
            /\ built' = n
       ELSE UNCHANGED <<doc, bms, secs, built>>
    /\ finalized' = flag_after(docOk, finalized)
    /\ UNCHANGED <<docOk, assets, guiVars, saveVars>>

ReplaceBookmarks(data, oracle) ==
    /\ calls < MaxCalls
    /\ Called("replace", 0, data, oracle[1])
    /\ IF docOk
       THEN SetDoc(replace_bookmarks(TheDoc, data, assets, oracle))
       ELSE UNCHANGED <<doc, bms, secs>>
    /\ UNCHANGED <<docOk, finalized, assets, built, guiVars, saveVars>>

UpdateIndexPageNumbers ==
    /\ calls < MaxCalls
    /\ docOk
    /\ Called("resolve", 0, <<>>, NoReading)
    /\ SetDoc(update_index_page_numbers(TheDoc))
    /\ UNCHANGED <<docOk, finalized, assets, built, guiVars, saveVars>>

\* save_document(num_chapters, full_data), called as the wizard calls it
SaveDocument(n, data, fails) ==
    /\ calls < MaxCalls
    /\ Called("save", n, data, NoReading)
    /\ IF docOk
       THEN \E r \in {save_document(
                         [d |-> TheDoc, finalized |-> finalized,
                          built |-> built],
                         fails, n, data, assets, Always(Reading(0)))} :
                /\ SetDoc(r.st.d)
                /\ finalized' = r.st.finalized
                /\ built' = r.st.built
                /\ log' = r.log
                /\ msg' = r.msg
       ELSE UNCHANGED <<doc, bms, secs, finalized, built, log, msg>>
    /\ saves' = saves + 1
    /\ UNCHANGED <<docOk, assets, guiVars>>

NextApi ==
    \/ \E n \in 1..MaxChapters : FinalizeDocument(n)
    \/ \E data \in Dicts, oracle \in Oracles : ReplaceBookmarks(data, oracle)
    \/ UpdateIndexPageNumbers
    \/ \E fails \in FailPoints : SaveDocument(SavedChapters, SavedData, fails)

SpecApi == InitApi /\ [][NextApi]_vars

(***************************************************************************)
(* The same interface on documents of nine and ten chapters (SpecTen)      *)
(***************************************************************************)
TenCounts == {9, 10}

Fig101 == [c |-> 10, i |-> 1, w |-> 400, h |-> 400]

TenDicts ==
    { << <<ChContent(10), <<Long("c10")>> >> >>,
      << <<ChContent(9), <<Long("c9")>> >>,
         <<ChContent(10), <<Long("c10")>> >> >>,
      << <<ChTitle(10), V("t10")>>, <<ChContent(1), <<Long("c1")>> >> >>,
      << <<ChTitle(1), V("t1")>>, <<ChContent(1), <<Long("c1")>> >>,
         <<ChTitle(10), V("t10")>>, <<ChContent(10), <<Long("c10")>> >>,
         <<References, V("refs")>> >> }

InitTen ==
    /\ docOk = TRUE
    /\ doc = initialize.doc /\ bms = initialize.bms /\ secs = initialize.secs
    /\ finalized = FALSE
    /\ assets = {Fig11, Fig101}
    /\ built = 0
    /\ hist = NoCall
    /\ calls = 0
    /\ NoGui

NextTen ==
    \/ \E n \in TenCounts : FinalizeDocument(n)
    \/ \E data \in TenDicts, oracle \in Oracles : ReplaceBookmarks(data, oracle)

SpecTen == InitTen /\ [][NextTen]_vars

(***************************************************************************)
(* replace_bookmarks on a host that refuses to register some names         *)
(* (SpecRe): the n-th entry of ReAddFailures is the set of names for which *)
(* doc.Bookmarks.Add raises during the call.                               *)
(***************************************************************************)
ReAddFailures ==
    << {}, {ChTitle(1)}, {ChContent(1), Nm("Year")}, {Nm("Abstract")} >>

ReDicts ==
    { << <<ChTitle(1), V("t1")>>, <<ChContent(1), <<Long("c1")>> >>,
         <<Nm("Year"), V("2025")>>, <<Nm("Chapter"), V("x")>> >>,
      << <<Nm("Sem"), V("5")>>, <<Nm("Abstract"), V("abs")>>,
         <<Nm("NameUSN"), V("n")>> >>,
      << <<Nm("ProjectTitle"), V("P")>> >> }

ReplaceBookmarksFailing(data, oracle, k) ==
    /\ calls < MaxCalls
    /\ docOk
    /\ Called("replace", k, data, oracle[1])
    /\ SetDoc(replace_bookmarks_failing(TheDoc, data, assets, oracle,
                                        ReAddFailures[k]))
    /\ UNCHANGED <<docOk, finalized, assets, built, guiVars, saveVars>>

NextRe ==
    \/ \E n \in 1..MaxChapters : FinalizeDocument(n)
    \/ \E data \in ReDicts, oracle \in Oracles, k \in 1..Len(ReAddFailures) :
           ReplaceBookmarksFailing(data, oracle, k)

SpecRe == InitTen /\ [][NextRe]_vars

(***************************************************************************)
(* finalize_document on a host whose calls may raise during the build      *)
(* (SpecRaise)                                                             *)
(***************************************************************************)
\* finalize_document(n) whose generate_static_pages_part2 raises: the flag
\* was reset before the build and is not set again
FinalizeDocumentRaising(n) ==
    /\ calls < MaxCalls
    /\ docOk
    /\ Called("finalize_raised", n, <<>>, NoReading)
    /\ SetDoc(generate_static_pages_part2_raising(
                  IF finalized THEN delete_part2_content(TheDoc) ELSE TheDoc,
                  n))
    /\ finalized' = FALSE
    /\ UNCHANGED <<docOk, assets, built, guiVars, saveVars>>

NextRaise ==
    \/ \E n \in 1..MaxChapters : FinalizeDocument(n)
    \/ \E n \in 1..MaxChapters : FinalizeDocumentRaising(n)
    \/ \E data \in ReDicts, oracle \in Oracles : ReplaceBookmarks(data, oracle)

SpecRaise == InitTen /\ [][NextRaise]_vars

(***************************************************************************)
(* Figure placement on its own: insert_images_in_chapter is called with    *)
(* the range of the chapter's content, as replace_bookmarks calls it.      *)
(***************************************************************************)
MaxInserts == 2
FigChapters == 2
MaxFiles == 3

Fig12 == [c |-> 1, i |-> 2, w |-> 0, h |-> 0]
Fig110 == [c |-> 1, i |-> 10, w |-> 400, h |-> 400]
Fig21 == [c |-> 2, i |-> 1, w |-> 1200, h |-> 800]

AssetSets == {{Fig11, Fig12, Fig21}, {Fig11, Fig110}, {Fig21}}

Limit == PageHeight - BottomMargin

\* the positions around the threshold of each height that occurs
Positions ==
    UNION {{Limit - h - caption_buffer - 1, Limit - h - caption_buffer,
            Limit - h - caption_buffer + 1} :
              h \in {target_height_pt(a) : a \in UNION AssetSets}}

Readings == {Reading(pos) : pos \in Positions} \cup {NoReading}

Contents ==
    << <<ChContent(1), <<Long("c1")>> >>, <<ChContent(2), V("c2")>>,
       <<References, V("refs")>> >>

InitFig ==
    /\ docOk = TRUE
    /\ assets \in AssetSets
    /\ \E filled \in BOOLEAN :
          LET d0 == finalize_document(initialize, FALSE, FigChapters)
              d == IF filled
                   THEN replace_bookmarks(d0, Contents, {}, Always(NoReading))
                   ELSE d0
          IN  doc = d.doc /\ bms = d.bms /\ secs = d.secs
    /\ finalized = TRUE
    /\ built = FigChapters
    /\ hist = NoCall
    /\ calls = 0
    /\ NoGui

InsertImages(chapter_num, reading) ==
    /\ calls < MaxInserts
    /\ BookmarksExists(TheDoc, ChContent(chapter_num))
    /\ Called("insert", chapter_num, <<>>, reading)
    /\ SetDoc(insert_images_in_chapter(
                  TheDoc, chapter_num,
                  BookmarkRange(TheDoc, ChContent(chapter_num))[2],
                  assets, Always(reading)))
    /\ UNCHANGED <<docOk, finalized, assets, built, guiVars, saveVars>>

\* the user puts one more image file into the asset directory
AddFile(a) ==
    /\ a \notin assets
    /\ Cardinality(assets) < MaxFiles
    /\ assets' = assets \cup {a}
    /\ hist' = [NoCall EXCEPT !.op = "add"]
    /\ UNCHANGED <<doc, bms, secs, docOk, finalized, built, calls, guiVars,
                   saveVars>>

NextFig ==
    \E chapter_num \in 1..FigChapters, reading \in Readings :
        InsertImages(chapter_num, reading)

SpecFig == InitFig /\ [][NextFig]_vars

\* figure placement while the asset directory grows (SpecGrow)
NextGrow ==
    \/ \E chapter_num \in 1..FigChapters, reading \in Readings :
           InsertImages(chapter_num, reading)
    \/ \E a \in UNION AssetSets : AddFile(a)

SpecGrow == InitFig /\ [][NextGrow]_vars

(***************************************************************************)
(* gui.py: the wizard.  A field is [label, typ, text]; the text of a       *)
(* field is what the user sees in its widget.                              *)
(***************************************************************************)
Field(label, typ, text) == [label |-> label, typ |-> typ, text |-> text]

\* App.pages with the labels already without blanks; page 5 is the
\* CHAPTERS_TAB_INTERFACE marker
pages ==
    << << <<Nm("College"), "entry">>, <<Nm("Department"), "entry">> >>,
       << <<Nm("ProjectTitle"), "entry">>, <<Nm("NameAndUSN"), "text">>,
          <<Nm("GuideName"), "entry">>, <<Nm("Designation"), "entry">> >>,
       << <<Nm("NameUSN"), "text">>, <<Nm("Sem"), "entry">>,
          <<Nm("Year"), "entry">> >>,
       << <<Nm("Abstract"), "text">> >>,
       <<>>,
       << <<References, "text">> >> >>

ChaptersPage == 5

\* widget.get() of an entry, widget.get("1.0", END).strip() of a text box
\* (a text box hands out its text with a newline at the end)
WidgetGet(field) ==
    IF field.typ = "entry" THEN field.text ELSE strip(field.text \o <<NL>>)

RECURSIVE Scrape(_, _, _)
\* page_data[label] = ... for the fields from the k-th on
Scrape(page_data, fields, k) ==
    IF k > Len(fields) THEN page_data
    ELSE Scrape(Put(page_data, fields[k].label, WidgetGet(fields[k])),
                fields, k + 1)

RECURSIVE ScrapeTabs(_, _, _)
\* combined_data over all tabs from the k-th on
ScrapeTabs(combined_data, tabs, k) ==
    IF k > Len(tabs) THEN combined_data
    ELSE ScrapeTabs(Scrape(combined_data, tabs[k].entries, 1), tabs, k + 1)

\* variant: nothing is stored
save_nothing(ui, page, tabs, fields) == ui

save_current_inputs(ui, page, tabs, fields) ==
    IF page = ChaptersPage /\ tabs # <<>>
    THEN [ui EXCEPT ![page] = ScrapeTabs(<<>>, tabs, 1)]
    ELSE [ui EXCEPT ![page] = Scrape(<<>>, fields, 1)]

\* create_chapter_tab(number) with build_chapter_ui: the widgets show what
\* is saved under the tab's keys
create_chapter_tab(number, saved_data) ==
    [id |-> number,
     entries |->
        << Field(ChTitle(number), "entry",
                 Get(saved_data, ChTitle(number), <<>>)),
           Field(ChContent(number), "text",
                 Get(saved_data, ChContent(number), <<>>)) >>]

HasTitle(key) == \E k \in 1..Len(key) : key[k] = "Title"

saved_chapter_count(saved_chapter_data) ==
    Cardinality({key \in Keys(saved_chapter_data) :
                    IsPrefix(Nm("Chapter"), key) /\ HasTitle(key)})

default_tabs == 5

\* variant: the default number of tabs whatever is saved
render_default_tabs(saved_chapter_data) ==
    [i \in 1..default_tabs |-> create_chapter_tab(i, saved_chapter_data)]

render_chapter_interface(saved_chapter_data) ==
    LET num_tabs_to_create ==
            IF saved_chapter_count(saved_chapter_data) > 0
            THEN saved_chapter_count(saved_chapter_data)
            ELSE default_tabs
    IN  [i \in 1..num_tabs_to_create |->
            create_chapter_tab(i, saved_chapter_data)]

\* load_page(): the fields and the tabs once the page is shown
load_page(ui, page, tabs) ==
    IF page = ChaptersPage
    THEN [entries |-> <<>>,
          chapter_tabs |-> render_chapter_interface(ui[ChaptersPage])]
    ELSE [entries |->
             [k \in 1..Len(pages[page]) |->
                 Field(pages[page][k][1], pages[page][k][2],
                       Get(ui[page], pages[page][k][1], <<>>))],
          chapter_tabs |-> tabs]

\* the tabs without the k-th, as list.remove leaves them
Removed(tabs, k) == SubSeq(tabs, 1, k - 1) \o SubSeq(tabs, k + 1, Len(tabs))

HasWord(label, word) == \E k \in 1..Len(label) : label[k] = word

\* variant: the remaining tabs keep the number they had
KeepNumbers(tabs) == tabs

\* the re-indexing loop of remove_chapter_tab
Reindex(tabs) ==
    [i \in 1..Len(tabs) |->
        [id |-> i,
         entries |->
            [e \in 1..Len(tabs[i].entries) |->
                [tabs[i].entries[e] EXCEPT
                    !.label = IF HasWord(@, "Title") THEN ChTitle(i)
                              ELSE IF HasWord(@, "Content") THEN ChContent(i)
                              ELSE @]]]]

RECURSIVE Update(_, _, _)
\* dict.update(page_data) from the k-th item on
Update(full_data, page_data, k) ==
    IF k > Len(page_data) THEN full_data
    ELSE Update(Put(full_data, page_data[k][1], page_data[k][2]),
                page_data, k + 1)

RECURSIVE Aggregate(_, _, _)
Aggregate(full_data, ui, page) ==
    IF page > Len(ui) THEN full_data
    ELSE Aggregate(Update(full_data, ui[page], 1), ui, page + 1)

aggregate_all_data(ui) == Aggregate(<<>>, ui, 1)

(***************************************************************************)
(* The program: the wizard on top of the generator                         *)
(***************************************************************************)
MaxTabs == 6
MaxTyped == 1
MaxRemoves == 1
MaxBack == 1
MaxSaves == 1

SaveReadings == {Reading(0), Reading(Limit)}

\* launch_gui(college, department)
LaunchInputs ==
    << << <<Nm("College"), V("BNMIT")>>,
          <<Nm("Department"), V("MECHANICAL ENGINEERING")>> >>,
       <<>>, <<>>, <<>>, <<>>, <<>> >>

\* what the user types into a field: its label spelled out, in a text box
\* as a long paragraph with blanks around it
Typing(field) ==
    IF field.typ = "entry"
    THEN [k \in 1..Len(field.label) |-> Txt(field.label[k])]
    ELSE <<WS>> \o [k \in 1..Len(field.label) |->
                      IF k = 1 THEN Long(field.label[k])
                      ELSE Txt(field.label[k])] \o <<NL>>

TypeAll(fields) ==
    [k \in 1..Len(fields) |-> [fields[k] EXCEPT !.text = Typing(fields[k])]]

Did(op, n) ==
    hist' = [NoCall EXCEPT !.op = op, !.n = n, !.tabs = chapter_tabs]

Show(page, ui) ==
    /\ current_page' = page
    /\ user_inputs' = ui
    /\ entries' = load_page(ui, page, chapter_tabs).entries
    /\ chapter_tabs' = load_page(ui, page, chapter_tabs).chapter_tabs

Saved == save_current_inputs(user_inputs, current_page, chapter_tabs, entries)

Init ==
    /\ docOk \in BOOLEAN
    /\ LET d == IF docOk THEN initialize
                ELSE [doc |-> <<>>, bms |-> {}, secs |-> <<>>]
       IN  doc = d.doc /\ bms = d.bms /\ secs = d.secs
    /\ finalized = FALSE
    /\ assets = {Fig11}
    /\ built = 0
    /\ hist = NoCall
    /\ calls = 0
    /\ current_page = 1
    /\ user_inputs = LaunchInputs
    /\ entries = load_page(LaunchInputs, 1, <<>>).entries
    /\ chapter_tabs = <<>>
    /\ typed = 0
    /\ removes = 0
    /\ backs = 0
    /\ log = <<>>
    /\ msg = "none"
    /\ saves = 0

\* the user fills in the page shown: every field of a standard page, every
\* tab of the chapters page
FillPage ==
    /\ saves < MaxSaves /\ typed < MaxTyped
    /\ IF current_page = ChaptersPage
       THEN /\ chapter_tabs' =
                  [k \in 1..Len(chapter_tabs) |->
                      [chapter_tabs[k] EXCEPT !.entries = TypeAll(@)]]
            /\ UNCHANGED entries
       ELSE /\ entries' = TypeAll(entries)
            /\ UNCHANGED chapter_tabs
    /\ typed' = typed + 1
    /\ hist' = NoCall
    /\ UNCHANGED <<doc, bms, secs, docOk, finalized, assets, built, calls,
                   current_page, user_inputs, removes, backs, saveVars>>

apply_page ==
    /\ saves < MaxSaves
    /\ user_inputs' = Saved
    /\ hist' = NoCall
    /\ UNCHANGED <<doc, bms, secs, docOk, finalized, assets, built, calls,
                   current_page, entries, chapter_tabs, typed, removes,
                   backs, saveVars>>

go_previous ==
    /\ saves < MaxSaves /\ backs < MaxBack
    /\ IF current_page > 1
       THEN Show(current_page - 1, Saved)
       ELSE /\ user_inputs' = Saved
            /\ UNCHANGED <<current_page, entries, chapter_tabs>>
    /\ backs' = backs + 1
    /\ hist' = NoCall
    /\ UNCHANGED <<doc, bms, secs, docOk, finalized, assets, built, calls,
                   typed, removes, saveVars>>

jump_to_last_with_prompt ==
    /\ saves < MaxSaves
    /\ Show(Len(pages), Saved)
    /\ hist' = NoCall
    /\ UNCHANGED <<doc, bms, secs, docOk, finalized, assets, built, calls,
                   typed, removes, backs, saveVars>>

add_new_chapter_tab ==
    /\ saves < MaxSaves
    /\ current_page = ChaptersPage
    /\ Len(chapter_tabs) < MaxTabs
    /\ LET next_id == Len(chapter_tabs) + 1
           tabs == Append(chapter_tabs,
                          create_chapter_tab(next_id,
                                             user_inputs[current_page]))
       IN  /\ chapter_tabs' = tabs
           /\ user_inputs' =
                 save_current_inputs(user_inputs, current_page, tabs, entries)
    /\ hist' = NoCall
    /\ UNCHANGED <<doc, bms, secs, docOk, finalized, assets, built, calls,
                   current_page, entries, typed, removes, backs, saveVars>>

\* variant: only an empty list of tabs refuses a removal
NoTabLeft(tabs) == Len(tabs) < 1

\* the guard of remove_chapter_tab: "Cannot delete the last chapter!"
LastChapter(tabs) == Len(tabs) <= 1

remove_chapter_tab(k) ==
    /\ saves < MaxSaves
    /\ current_page = ChaptersPage
    /\ k \in 1..Len(chapter_tabs)
    /\ IF LastChapter(chapter_tabs)
       THEN UNCHANGED <<chapter_tabs, user_inputs>>
       ELSE LET tabs == Reindex(Removed(chapter_tabs, k))
            IN  /\ chapter_tabs' = tabs
                /\ user_inputs' =
                      save_current_inputs(
                          [user_inputs EXCEPT ![ChaptersPage] = <<>>],
                          current_page, tabs, entries)
    /\ removes' = removes + 1
    /\ Did("remove", k)
    /\ UNCHANGED <<doc, bms, secs, docOk, finalized, assets, built, calls,
                   current_page, entries, typed, backs, saveVars>>

\* what _show_next_enter, the command of the Next/Done button and of the
\* Enter key, writes into the floating label on the last page, before it
\* calls save_entire_report
DoneFlash == "Done! Report saved successfully."

\* Next, and Done on the last page
go_next ==
    /\ saves < MaxSaves
    /\ IF current_page < Len(pages)
       THEN /\ Show(current_page + 1, Saved)
            /\ hist' = NoCall
            /\ UNCHANGED <<doc, bms, secs, finalized, built, saveVars>>
       ELSE /\ user_inputs' = Saved
            /\ UNCHANGED <<current_page, entries, chapter_tabs>>
            /\ saves' = saves + 1
            /\ LET full_data == aggregate_all_data(Saved)
                   num_chapters == IF chapter_tabs # <<>>
                                   THEN Len(chapter_tabs) ELSE default_tabs
               IN  /\ hist' = [NoCall EXCEPT !.op = "done",
                                            !.n = num_chapters,
                                            !.tabs = chapter_tabs,
                                            !.flash = DoneFlash]
                   /\ IF docOk
                      THEN \E fails \in FailPoints, reading \in SaveReadings :
                             \E r \in {save_document(
                                        [d |-> TheDoc,
                                         finalized |-> finalized,
                                         built |-> built],
                                        fails, num_chapters, full_data,
                                        assets, Always(reading))} :
                                 /\ SetDoc(r.st.d)
                                 /\ finalized' = r.st.finalized
                                 /\ built' = r.st.built
                                 /\ log' = r.log
                                 /\ msg' = r.msg
                      ELSE UNCHANGED <<doc, bms, secs, finalized, built,
                                       log, msg>>
    /\ UNCHANGED <<docOk, assets, calls, typed, removes, backs>>

Next ==
    \/ FillPage
    \/ apply_page
    \/ go_previous
    \/ go_next
    \/ jump_to_last_with_prompt
    \/ add_new_chapter_tab
    \/ \E k \in 1..MaxTabs : removes < MaxRemoves /\ remove_chapter_tab(k)

Spec == Init /\ [][Next]_vars

(***************************************************************************)
(* The wizard alone: every way of moving between the pages                 *)
(***************************************************************************)
\* the page selector hands over "<n>. <title>" of one of the pages (the
\* digit keys beyond the last page raise before they reach it)
jump_to_page(page_num) ==
    /\ saves < MaxSaves
    /\ Show(page_num, Saved)
    /\ hist' = [NoCall EXCEPT !.op = "jump", !.n = page_num]
    /\ UNCHANGED <<doc, bms, secs, docOk, finalized, assets, built, calls,
                   typed, removes, backs, saveVars>>

NextGui ==
    \/ FillPage
    \/ apply_page
    \/ go_previous
    \/ current_page < Len(pages) /\ go_next
    \/ jump_to_last_with_prompt
    \/ \E page_num \in 1..Len(pages) : jump_to_page(page_num)
    \/ add_new_chapter_tab
    \/ \E k \in 1..MaxTabs : removes < MaxRemoves /\ remove_chapter_tab(k)

SpecGui == Init /\ [][NextGui]_vars

\* save_entire_report (Ctrl+Shift+S, from any page): what it hands to
\* save_document
save_entire_report ==
    [num_chapters |-> IF chapter_tabs # <<>> THEN Len(chapter_tabs)
                      ELSE default_tabs,
     full_data |-> aggregate_all_data(Saved)]

(***************************************************************************)
(* Images for the chapters: the user goes to the chapters page, fills it   *)
(* in, uploads images, removes tabs, goes on and presses Done              *)
(***************************************************************************)
MaxUploads == 1

\* the image file picked in the dialog, as it is copied to the assets
Uploaded(ch_num, i) == [c |-> ch_num, i |-> i, w |-> 400, h |-> 400]

\* the upload button of a tab carries the number the tab was created with,
\* which is the tab's id as long as no tab has been removed since the page
\* was rendered
browse_and_upload_images(ch_num) ==
    /\ saves < MaxSaves
    /\ current_page = ChaptersPage
    /\ removes = 0
    /\ ch_num \in {chapter_tabs[k].id : k \in 1..Len(chapter_tabs)}
    /\ Cardinality(assets) < Cardinality({Fig11}) + MaxUploads
    /\ LET existing == {a \in assets : a.c = ch_num}
           next_idx == 1 + SetMax({a.i : a \in existing} \cup {0})
       IN  assets' = assets \cup {Uploaded(ch_num, next_idx)}
    /\ Did("upload", ch_num)
    /\ UNCHANGED <<doc, bms, secs, docOk, finalized, built, calls,
                   guiVars, saveVars>>

NextUpload ==
    \/ go_next
    \/ current_page = ChaptersPage /\ FillPage
    \/ \E ch_num \in 1..MaxTabs : browse_and_upload_images(ch_num)
    \/ \E k \in 1..MaxTabs : removes < MaxRemoves /\ remove_chapter_tab(k)

SpecUpload == Init /\ [][NextUpload]_vars

(***************************************************************************)
(* The chapters page alone: the user goes there and adds and removes tabs, *)
(* often enough to come down from the default tabs to a single one         *)
(***************************************************************************)
MaxTabRemoves == 5

NextTabs ==
    \/ current_page < ChaptersPage /\ go_next
    \/ current_page = ChaptersPage /\ FillPage
    \/ add_new_chapter_tab
    \/ \E k \in 1..MaxTabs : removes < MaxTabRemoves /\ remove_chapter_tab(k)

SpecTabs == Init /\ [][NextTabs]_vars

(***************************************************************************)
(* Properties of the backend's interface (SpecApi)                         *)
(***************************************************************************)
Replaced == docOk /\ hist.op = "replace"

SameCallTwice == Replaced /\ hist.pop = "replace" /\ hist.data = hist.pdata

\* the document the last call started from
Before == [doc |-> hist.pre.doc, bms |-> hist.pre.bms]

\* C1: a second replace_bookmarks with the same dictionary changes nothing:
\* the text of the document is the text after the first call (no value is
\* duplicated) and every region is there with the span it had.
C1_SecondReplaceChangesNothing ==
    SameCallTwice =>
        /\ doc = Before.doc
        /\ \A b \in Before.bms :
              /\ b \in bms
              /\ BookmarkText(TheDoc, b.name) = BookmarkText(Before, b.name)
        /\ \A b \in bms : b \in Before.bms

C1_Witness ==
    /\ SameCallTwice
    /\ finalized
    /\ BookmarkText(TheDoc, ChContent(1)) = <<Long("c1"), NL>>
    /\ \E k \in 1..Len(doc) : doc[k] = FigLabel(1, 1)

\* C3: a region whose name is a key of the transformed dictionary holds that
\* key's value (followed by the paragraph mark for the newline regions),
\* whether a shorter key that is a prefix of the name comes before or after
\* it in the dictionary.
C3_OwnValueWins ==
    Replaced =>
        LET td == transformed_data(hist.data)
        IN  \A k \in 1..Len(td) :
                BookmarksExists(Before, td[k][1]) =>
                    /\ BookmarksExists(TheDoc, td[k][1])
                    /\ BookmarkText(TheDoc, td[k][1])
                           = insert_text(td[k][1], td[k][2])

C3_Witness ==
    /\ Replaced
    /\ hist.data[1][1] = Nm("ProjectTitle")
    /\ Var("ProjectTitle", 2) \in Keys(hist.data)
    /\ BookmarkText(TheDoc, Var("ProjectTitle", 2)) = V("U")
    /\ BookmarkText(TheDoc, Nm("ProjectTitle")) = <<Txt("T"), NL>>

\* the regions whose keys are derived from the Department input
DerivedRegions ==
    {Var("Department", 4), Var("Department", 5), Var("Department", 6),
     Var("Department", 7), Var("Department", 9), Ack("HODName")}

RawDepartment == Get(hist.data, Nm("Department"), <<>>)

InTable(v) ==
    Len(v) = 1 /\ v[1].t = "txt" /\ v[1].s \in DOMAIN dept_short_forms

DepartmentGiven == Replaced /\ Nm("Department") \in Keys(hist.data)

\* C4 as stated: a Department value of the table puts the short form into
\* Department_6 and Department_7 and the HOD name into Department_5; any
\* other value is what every derived region holds, unchanged.
C4_AsStated ==
    DepartmentGiven =>
        IF InTable(RawDepartment)
        THEN /\ BookmarkText(TheDoc, Var("Department", 6))
                    = V(dept_short_forms[RawDepartment[1].s])
             /\ BookmarkText(TheDoc, Var("Department", 7))
                    = V(dept_short_forms[RawDepartment[1].s])
             /\ BookmarkText(TheDoc, Var("Department", 5))
                    = V(hod_titles[RawDepartment[1].s])
        ELSE \A R \in DerivedRegions :
                 BookmarkText(TheDoc, R) = RawDepartment

\* C4: the table is looked up with the Department value stripped of the
\* blanks around it.  A stripped value of the table puts its short form
\* into Department_6 and Department_7 and its HOD name into Department_5; any
\* other non-blank value is what every derived region holds, stripped; a
\* blank value derives nothing and the derived regions stay as they were.
C4_DepartmentTable ==
    DepartmentGiven =>
        LET dv == strip(RawDepartment)
        IN  IF dv = <<>>
            THEN \A R \in DerivedRegions :
                     BookmarkText(TheDoc, R) = BookmarkText(Before, R)
            ELSE IF InTable(dv)
            THEN /\ BookmarkText(TheDoc, Var("Department", 6))
                        = V(dept_short_forms[dv[1].s])
                 /\ BookmarkText(TheDoc, Var("Department", 7))
                        = V(dept_short_forms[dv[1].s])
                 /\ BookmarkText(TheDoc, Var("Department", 5))
                        = V(hod_titles[dv[1].s])
            ELSE \A R \in DerivedRegions : BookmarkText(TheDoc, R) = dv

C4_Witness ==
    /\ DepartmentGiven
    /\ RawDepartment = <<WS, Txt("ROBOTICS"), WS>>
    /\ BookmarkText(TheDoc, Var("Department", 6)) = V("ROBOTICS")
    /\ BookmarkText(TheDoc, Var("Department", 5)) = V("ROBOTICS")

ChapterRegions(n) ==
    UNION {{ChTitle(i), ChTitle2(i), ChTitle3(i), ChContent(i), ChPage(i)} :
              i \in 1..n}

\* the rows of the table of contents: one per numbered entry
TocRowCount == Cardinality({k \in 1..Len(doc) : doc[k] = Txt("no")})

\* C5: after finalize_document calls with counts N1..Nk the tail is the one
\* for Nk: the chapter regions are those of chapters 1..Nk, RefPage and
\* References exist, the table of contents has Nk chapter rows and the
\* references row, and the document has Nk + 3 sections.
C5_TailIsTheLastCount ==
    (docOk /\ finalized) =>
        /\ {n \in BookmarkNames(TheDoc) : n[1] = "Chapter"}
               = ChapterRegions(built)
        /\ RefPage \in BookmarkNames(TheDoc)
        /\ References \in BookmarkNames(TheDoc)
        /\ Cardinality(bms) = Cardinality(BookmarkNames(TheDoc))
        /\ TocRowCount = built + 1
        /\ SectionsCount(TheDoc) = built + 3
        /\ Len(secs) = built + 3

C5_Witness ==
    /\ docOk
    /\ hist.op = "finalize"
    /\ built = 2
    /\ ChContent(3) \in {b.name : b \in hist.pre.bms}
    /\ \E k \in 1..Len(hist.pre.doc) : hist.pre.doc[k] = FigLabel(1, 1)

(***************************************************************************)
(* Properties of the figure placement (SpecFig)                            *)
(***************************************************************************)
Inserted == hist.op = "insert"

Occurrences(seq, tok) == Cardinality({k \in 1..Len(seq) : seq[k] = tok})

FilesOf(chapter_num) == {a \in assets : a.c = chapter_num}

\* C2: a second insert_images_in_chapter for the same chapter and the same
\* files adds no figure: the document is the one the first call left, and
\* it holds each image of the chapter and each caption once.
C2_SecondInsertAddsNothing ==
    (Inserted /\ hist.pop = "insert" /\ hist.n = hist.pn) =>
        /\ doc = Before.doc
        /\ \A a \in FilesOf(hist.n) :
              /\ Occurrences(doc, Img(a.c, a.i)) = 1
              /\ Occurrences(doc, FigLabel(a.c, a.i)) = 1

C2_Witness ==
    /\ Inserted /\ hist.pop = "insert" /\ hist.n = 1 /\ hist.pn = 1
    /\ assets = {Fig11, Fig110}
    /\ Occurrences(doc, Img(1, 1)) = 1
    /\ Occurrences(doc, Img(1, 10)) = 1

\* the figures the last call put into the document
NewFigures ==
    {a \in FilesOf(hist.n) : Occurrences(Before.doc, Img(a.c, a.i)) = 0
                             /\ Occurrences(doc, Img(a.c, a.i)) = 1}

BreakBefore(a) ==
    \E k \in 2..Len(doc) : doc[k] = Img(a.c, a.i) /\ doc[k - 1] = PB

\* C10: a figure of estimated height h gets a page break in front of it
\* exactly when the position read for it satisfies position + h + 60 > L,
\* L being page height minus bottom margin: a break at L - h - 60 + 1, none
\* at L - h - 60 - 1 (and none when the position cannot be read).
C10_BreakExactlyOnOverflow ==
    Inserted =>
        \A a \in NewFigures :
            LET h == target_height_pt(a)
                L == PageHeight - BottomMargin
            IN  /\ BreakBefore(a) <=>
                       (hist.reading.ok /\ hist.reading.pos + h + 60 > L)
                /\ (hist.reading.ok /\ hist.reading.pos = L - h - 60 + 1)
                       => BreakBefore(a)
                /\ (hist.reading.ok /\ hist.reading.pos = L - h - 60 - 1)
                       => ~BreakBefore(a)

C10_Witness ==
    /\ Inserted
    /\ Fig11 \in NewFigures
    /\ hist.reading = Reading(PageHeight - BottomMargin - 300 - 60 + 1)
    /\ BreakBefore(Fig11)


(***************************************************************************)
(* Properties of the program (Spec)                                        *)
(***************************************************************************)
RemovedTab == hist.op = "remove" /\ Len(hist.tabs) > 1

\* what is stored for a tab: the title as shown, the content without the
\* blanks around it
TitleOf(tab) == tab.entries[1].text
ContentOf(tab) == strip(tab.entries[2].text)

\* C6: removing the tab at position k of n > 1 tabs leaves n - 1 chapters
\* numbered 1..n-1; user_inputs[5] holds exactly their keys; what was
\* entered for a former chapter j > k is stored under Chapter(j-1)Title and
\* Chapter(j-1)Content, and the chapters below k keep keys and values.
C6_RemoveShiftsChaptersDown ==
    RemovedTab =>
        LET old == hist.tabs
            n == Len(old)
            k == hist.n
            stored == user_inputs[ChaptersPage]
        IN  /\ Len(chapter_tabs) = n - 1
            /\ \A i \in 1..(n - 1) : chapter_tabs[i].id = i
            /\ Keys(stored) =
                  UNION {{ChTitle(i), ChContent(i)} : i \in 1..(n - 1)}
            /\ \A j \in (1..n) \ {k} :
                  LET i == IF j > k THEN j - 1 ELSE j
                  IN  /\ Get(stored, ChTitle(i), <<PH>>) = TitleOf(old[j])
                      /\ Get(stored, ChContent(i), <<PH>>) = ContentOf(old[j])

\* chapter 2 of 5 filled-in chapters is removed: what was typed as the
\* content of chapter 3 is found under Chapter2Content
C6_Witness ==
    /\ RemovedTab
    /\ Len(hist.tabs) = 5 /\ hist.n = 2
    /\ Get(user_inputs[ChaptersPage], ChContent(2), <<>>)
          = <<Long("Chapter"), Txt("3"), Txt("Content")>>
    /\ Get(user_inputs[ChaptersPage], ChTitle(1), <<>>)
          = <<Txt("Chapter"), Txt("1"), Txt("Title")>>

\* the last save_document call went through to the end
SavedNow == docOk /\ hist.op = "done" /\ msg = "Saved"

\* the number that prints on the page where the region ends
ResolvedPage(name) ==
    PageText(AdjustedPageNumber(TheDoc, BookmarkRange(TheDoc, name)[2]))

\* C7: after the page numbers are resolved on a document of N chapters,
\* every ChapteriPage (i in 1..N) exists and holds the page of
\* ChapteriTitle_2, and RefPage exists and holds the page of References,
\* for every N the wizard can reach.
C7_EveryPageCellResolved ==
    SavedNow =>
        /\ \A i \in 1..built :
              /\ BookmarksExists(TheDoc, ChPage(i))
              /\ BookmarksExists(TheDoc, ChTitle2(i))
              /\ BookmarkText(TheDoc, ChPage(i)) = ResolvedPage(ChTitle2(i))
        /\ BookmarksExists(TheDoc, RefPage)
        /\ BookmarksExists(TheDoc, References)
        /\ BookmarkText(TheDoc, RefPage) = ResolvedPage(References)

\* where a statement stands in the log (0: it has not started)
Pos(step) ==
    IF \E k \in 1..Len(log) : log[k] = step
    THEN CHOOSE k \in 1..Len(log) : log[k] = step
    ELSE 0

Once(step) == Cardinality({k \in 1..Len(log) : log[k] = step}) <= 1

\* C8: in every save_document call the tail is regenerated, then the input
\* substituted, then the page numbers resolved, then the document saved:
\* resolution starts only after regeneration and substitution of this call,
\* and neither of them runs between resolution and the save.
C8_StepsInOrder ==
    (docOk /\ hist.op = "done") =>
        /\ log # <<>>
        /\ \A step \in {"finalize", "replace", "resolve", "save"} : Once(step)
        /\ Pos("replace") > 0 => 0 < Pos("finalize") /\ Pos("finalize") < Pos("replace")
        /\ Pos("resolve") > 0 => 0 < Pos("replace") /\ Pos("replace") < Pos("resolve")
        /\ Pos("save") > 0 =>
              /\ 0 < Pos("resolve") /\ Pos("resolve") < Pos("save")
              /\ Pos("finalize") < Pos("resolve")
        /\ msg = "Saved" <=> Pos("save") > 0

C8_Witness ==
    /\ SavedNow
    /\ Pos("save") = Len(log)
    /\ built = 5
    /\ BookmarkText(TheDoc, ChContent(3))
          = <<Long("Chapter"), Txt("3"), Txt("Content"), NL>>
    /\ BookmarkText(TheDoc, ChPage(3)) = ResolvedPage(ChTitle2(3))

IsNumber(v) ==
    v # <<>> /\ \A k \in 1..Len(v) : v[k].t = "txt" /\ IsDigit(v[k].s)

NumberIn(name) ==
    LET v == BookmarkText(TheDoc, name)
    IN  IntOf([k \in 1..Len(v) |-> v[k].s])

\* C9: after the page numbers are resolved on a document of N chapters,
\* Chapter1Page..ChapterNPage hold numbers that strictly increase with the
\* chapter, and RefPage holds a number not below the one in ChapterNPage.
C9_PageNumbersIncrease ==
    SavedNow =>
        /\ \A i \in 1..built : IsNumber(BookmarkText(TheDoc, ChPage(i)))
        /\ IsNumber(BookmarkText(TheDoc, RefPage))
        /\ \A i \in 1..(built - 1) : NumberIn(ChPage(i)) < NumberIn(ChPage(i + 1))
        /\ NumberIn(RefPage) >= NumberIn(ChPage(built))

(***************************************************************************)
(* Further properties of the backend's interface (SpecApi)                 *)
(***************************************************************************)
\* C11: without a document (initialize failed) finalize_document,
\* replace_bookmarks and save_document change nothing: there is no document
\* text, no region and no section, the finalized flag stays false, no
\* statement of save_document has started and no message is shown.
C11_NoDocumentNoEffect ==
    ~docOk =>
        /\ doc = <<>> /\ bms = {} /\ secs = <<>>
        /\ finalized = FALSE
        /\ built = 0
        /\ log = <<>>
        /\ msg = "none"

C11_Witness ==
    /\ ~docOk
    /\ calls = 3
    /\ hist.op = "save" /\ hist.pop \in {"finalize", "replace"}

\* the keys the interface documents
Vocabulary ==
    {Nm("College"), Nm("Department"), Nm("ProjectTitle"), Nm("NameAndUSN"),
     Nm("GuideName"), Nm("Designation"), Nm("Year"), Nm("Abstract"),
     References}

InVocabulary(key) ==
    \/ key \in Vocabulary
    \/ /\ Len(key) >= 3
       /\ key[1] = "Chapter"
       /\ key[Len(key)] \in {"Title", "Content"}
       /\ \A k \in 2..(Len(key) - 1) : IsDigit(key[k])

UnknownKeys(data) == {k \in Keys(data) : ~InVocabulary(k)}

StartsWith(name, key) ==
    /\ Len(key) <= Len(name)
    /\ \A k \in 1..Len(key) : name[k] = key[k]

\* the unknown keys no region's name starts with
UnmatchedKeys(data) ==
    {k \in UnknownKeys(data) :
        \A b \in hist.pre.bms : ~StartsWith(b.name, k)}

RECURSIVE Without(_, _)
Without(data, drop) ==
    IF data = <<>> THEN <<>>
    ELSE IF data[1][1] \in drop THEN Without(Tail(data), drop)
    ELSE <<data[1]>> \o Without(Tail(data), drop)

\* the document is what the last call makes of this dictionary
SameResultAs(data) ==
    \E r \in {replace_bookmarks([doc |-> hist.pre.doc, bms |-> hist.pre.bms,
                                 secs |-> hist.pre.secs, live |-> {}],
                                data, assets, Always(hist.reading))} :
        doc = r.doc /\ bms = r.bms /\ secs = r.secs

\* C12 (as stated): every key outside the vocabulary, whatever its spelling,
\* is ignored: the call leaves the document it would leave without such keys.
C12_AsStated ==
    Replaced => SameResultAs(Without(hist.data, UnknownKeys(hist.data)))

\* C12: a key outside the vocabulary that no existing region's name starts
\* with is ignored: the call leaves the texts, spans and sections it would
\* leave for the dictionary without such keys.
C12_UnmatchedKeysIgnored ==
    Replaced => SameResultAs(Without(hist.data, UnmatchedKeys(hist.data)))

C12_Witness ==
    /\ Replaced
    /\ finalized
    /\ UnmatchedKeys(hist.data) = {Nm("Sem"), Nm("NameUSN")}
    /\ BookmarkText(TheDoc, Nm("Abstract")) = V("abs")

\* two replace_bookmarks calls in a row, the second with documented keys only
TwoCalls ==
    /\ Replaced
    /\ hist.pop = "replace"
    /\ UnknownKeys(hist.data) = {}

RECURSIVE UpTo(_, _)
\* the parts of a name in front of its first part w
UpTo(name, w) ==
    IF name = <<>> \/ name[1] = w THEN <<>>
    ELSE <<name[1]>> \o UpTo(Tail(name), w)

\* the input field a region shows
FieldOf(name) ==
    IF name[1] = "HODName" THEN Nm("Department") ELSE UpTo(name, "_")

HasValue(data, key) == Get(data, key, <<>>) # <<>>

\* the regions whose field has a value in d1 and no entry in d2 keep their text
KeepsFirstValue ==
    \A b \in hist.pre.bms :
        (HasValue(hist.pdata, FieldOf(b.name))
            /\ FieldOf(b.name) \notin Keys(hist.data))
        => /\ BookmarksExists(TheDoc, b.name)
           /\ BookmarkText(TheDoc, b.name)
                  = BookmarkText([doc |-> hist.pre.doc, bms |-> hist.pre.bms],
                                 b.name)

\* the regions named as a key of d2 hold d2's value
HoldsSecondValue ==
    \A b \in hist.pre.bms :
        (b.name \in Keys(hist.data) /\ b.name # Nm("Department"))
        => /\ BookmarksExists(TheDoc, b.name)
           /\ BookmarkText(TheDoc, b.name)
                  = insert_text(b.name, Get(hist.data, b.name, <<>>))

\* a year given to the first call is still in the footers
KeepsFirstYear ==
    (HasValue(hist.pdata, Nm("Year")) /\ Nm("Year") \notin Keys(hist.data))
    => \A idx \in 3..Len(secs) : secs[idx].footer = hist.pre.secs[idx].footer

\* C13: values accumulate over two replace_bookmarks calls d1, d2: a region
\* whose field has a value in d1 and no entry in d2 still holds d1's value
\* (so does the year in the footers), and a region whose field is in d2
\* holds d2's value.
C13_ValuesAccumulate ==
    TwoCalls => KeepsFirstValue /\ HoldsSecondValue /\ KeepsFirstYear

\* the entries of the transformed dictionary that are written to a region:
\* the key is the name or a prefix of it, and a mere prefix stands back
\* when the name is a key itself
WritersOf(td, name) ==
    {k \in 1..Len(td) :
        /\ StartsWith(name, td[k][1])
        /\ td[k][1] = name \/ name \notin Keys(td)}

\* the text the pass writes to the region: the first such entry's value
\* (the region is unregistered until the pass ends, so later ones skip it)
LastWritten(td, name) ==
    LET k == CHOOSE i \in WritersOf(td, name) :
                 \A j \in WritersOf(td, name) : i <= j
    IN  td[k][2] \o (IF name \in newline_bookmark_names THEN <<NL>> ELSE <<>>)

GivenTitle == Get(hist.data, Nm("ProjectTitle"), <<>>)

GivenYear == Get(hist.data, Nm("Year"), <<>>)

\* a call with a title or a year on a document whose tail is built
Broadcast ==
    /\ Replaced
    /\ finalized /\ built >= 1
    /\ GivenTitle # <<>> \/ GivenYear # <<>>

\* the section has the title as header and the one three-cell footer
HeaderAndFooter(sec) ==
    /\ GivenTitle # <<>> => sec.header = GivenTitle
    /\ sec.footer = <<DeptFooter>> \o GivenYear \o <<PageField>>

\* C15: after replace_bookmarks with a project title or a year, every
\* section behind the front matter (the table of contents, which is section
\* 2, every chapter's section and the references) has the title as header
\* and exactly one footer of three cells: the fixed label, the year if
\* given, the page field; also when the call is repeated.
C15_HeaderFooterBroadcast ==
    Broadcast => \A idx \in 2..Len(secs) : HeaderAndFooter(secs[idx])

\* finalize_document(N) has just returned, N >= 1
Finalized == docOk /\ hist.op = "finalize" /\ hist.n >= 1

\* C16: after finalize_document(N), N >= 1: section 1 (front matter) shows
\* no page number; section 2 (table of contents) restarts at 1 in lower-case
\* Roman; section 3 (first chapter) restarts at 1 in Arabic; the later
\* chapters' sections and the references continue in Arabic without a
\* restart; every chapter's section has an empty footer on its first page.
C16_PageNumbering ==
    Finalized =>
        /\ Len(secs) = hist.n + 3
        /\ secs[1].footer = <<>> /\ secs[1].firstFooter = <<>>
        /\ secs[1].pageNumbers = 0
        /\ secs[2].restart /\ secs[2].start = 1 /\ secs[2].style = "roman"
        /\ secs[2].pageNumbers >= 1
        /\ secs[3].restart /\ secs[3].start = 1 /\ secs[3].style = "arabic"
        /\ \A idx \in 4..Len(secs) :
              ~secs[idx].restart /\ secs[idx].style = "arabic"
        /\ \A idx \in 3..(hist.n + 2) :
              /\ secs[idx].diffFirst
              /\ secs[idx].firstFooter = <<>>
              /\ secs[idx].pageNumbers >= 1
        /\ PageField \in {secs[Len(secs)].footer[k] :
                             k \in 1..Len(secs[Len(secs)].footer)}

C16_Witness ==
    /\ Finalized
    /\ hist.n = 3
    /\ hist.pop = "replace"
    /\ calls = 3
    /\ secs[5].style = "arabic" /\ ~secs[5].restart /\ secs[5].diffFirst

\* the calls of figure placement in the pass that has just ended
PlacementsOfPass ==
    LET td == transformed_data(hist.data)
        d == [doc |-> hist.pre.doc, bms |-> hist.pre.bms,
              secs |-> hist.pre.secs, live |-> {}]
    IN  PlacementCalls(d, Worklist(td, d.bms, 1), 1, Keys(td), assets,
                       Always(hist.reading), <<>>)

\* C17: when figure placement is called for a chapter's content during
\* replace_bookmarks, every region replaced earlier in the pass is
\* registered under its name over its new span.
C17_RegisteredAtPlacement ==
    Replaced =>
        \A k \in 1..Len(PlacementsOfPass) :
            LET at == PlacementsOfPass[k]
            IN  \A x \in at.d.live :
                    x.name # at.name => x \in at.d.bms

\* where the title region of the chapter starts in d, registered or held
TitleStart(d, chapter_num) ==
    LET x == CHOOSE b \in d.bms \cup d.live : b.name = ChTitle2(chapter_num)
    IN  x.s

\* C18: when chapter n+1 is part of the document, figure placement for
\* chapter n, also when called during a substitution pass whatever the order
\* of the keys, takes the start of chapter n+1's title region as the upper
\* bound of its scan range, so that no later chapter and no references are
\* scanned for captions or entered by the cursor.
C18_BoundedByNextTitle ==
    Replaced =>
        \A k \in 1..Len(PlacementsOfPass) :
            LET at == PlacementsOfPass[k]
                n == DigitVal(at.name[2])
            IN  n + 1 <= built =>
                    chapter_limit(at.d, n) = TitleStart(at.d, n + 1)

\* the range held for the region in d
HeldFor(d, name) == CHOOSE x \in d.live : x.name = name

\* C19: for every chapter i of the document, 1 <= i <= chapter count,
\* two-digit i included, replacing the region ChapteriContent in
\* replace_bookmarks calls figure placement with chapter id i and the end of
\* the new content as the place to insert.
C19_PlacementForEveryChapter ==
    (Replaced /\ finalized) =>
        \A i \in 1..built :
            (ChContent(i) \in Keys(hist.data)
                /\ ChContent(i) \in {b.name : b \in hist.pre.bms})
            => \E k \in 1..Len(PlacementsOfPass) :
                   LET at == PlacementsOfPass[k]
                   IN  /\ at.name = ChContent(i)
                       /\ at.chapter_num = i
                       /\ at.start_end = HeldFor(at.d, ChContent(i)).e

\* where the captions of the chapter stand in a document
CaptionsAt(seq, chapter_num) ==
    {k \in 1..Len(seq) : seq[k].t = "fig" /\ seq[k].c = chapter_num}

\* the captions of the chapter are in ascending order of their index
Ascending(seq, chapter_num) ==
    \A j, k \in CaptionsAt(seq, chapter_num) : j < k => seq[j].i < seq[k].i

\* the captions the last call added stand behind those that were there
NewBehindOld ==
    \A j, k \in CaptionsAt(doc, hist.n) :
        (Occurrences(hist.pre.doc, doc[j]) = 1
            /\ Occurrences(hist.pre.doc, doc[k]) = 0) => j < k

\* every file of the chapter that is not placed yet has a higher index than
\* every caption of the chapter in the document the call starts from
OnlyHigherAdded ==
    \A a \in FilesOf(hist.n) :
        Occurrences(hist.pre.doc, FigLabel(a.c, a.i)) = 0 =>
            \A k \in CaptionsAt(hist.pre.doc, hist.n) :
                hist.pre.doc[k].i < a.i

\* C20 (as stated): whatever files are added between the calls, the
\* captions of a chapter are in ascending order of index and the figures of
\* a later call stand behind all that were there.
C20_AsStated ==
    Inserted => Ascending(doc, hist.n) /\ NewBehindOld

\* C20: when every file added between the calls has a higher index than the
\* figures already placed, the captions of the chapter stay in ascending
\* order of index and the figures of a later call stand behind all that
\* were there.
C20_AppendsInOrder ==
    (Inserted /\ Ascending(hist.pre.doc, hist.n) /\ OnlyHigherAdded) =>
        Ascending(doc, hist.n) /\ NewBehindOld

C20_Witness ==
    /\ Inserted /\ hist.n = 1 /\ hist.pop = "add"
    /\ OnlyHigherAdded
    /\ Occurrences(hist.pre.doc, FigLabel(1, 1)) = 1
    /\ Occurrences(hist.pre.doc, FigLabel(1, 2)) = 0
    /\ Occurrences(doc, FigLabel(1, 2)) = 1

(***************************************************************************)
(* Properties of the figure placement, continued                           *)
(***************************************************************************)
\* C21: a discovered figure is skipped only when its own caption is in the
\* chapter already: every file of the chapter whose caption was absent is
\* inserted, and after the call each file of the chapter has one image and
\* one caption in the document, whatever the indices of the files.
C21_SkipsOnlyOwnCaption ==
    Inserted =>
        \A a \in FilesOf(hist.n) :
            /\ Occurrences(hist.pre.doc, FigLabel(a.c, a.i)) = 0
                   => a \in NewFigures
            /\ Occurrences(doc, Img(a.c, a.i)) = 1
            /\ Occurrences(doc, FigLabel(a.c, a.i)) = 1

(***************************************************************************)
(* Properties of replace_bookmarks under failures (SpecRe)                 *)
(***************************************************************************)
\* the names Bookmarks.Add raised for in the last call
Refused == ReAddFailures[hist.n]

\* C22: a region that is no longer registered when the loop reaches it is
\* skipped, and a region whose re-registration fails is reported and left
\* unregistered; the pass goes on: every other region that an entry writes
\* to holds the value written and is registered again, and the header and
\* footer updates behind the loop are made.
C22_PassContinues ==
    Replaced =>
        LET td == transformed_data(hist.data)
        IN  /\ \A b \in hist.pre.bms :
                  WritersOf(td, b.name) # {} =>
                      IF b.name \in Refused
                      THEN ~BookmarksExists(TheDoc, b.name)
                      ELSE /\ BookmarksExists(TheDoc, b.name)
                           /\ BookmarkText(TheDoc, b.name)
                                  = LastWritten(td, b.name)
            /\ \A b \in hist.pre.bms :
                  WritersOf(td, b.name) = {} => b.name \in BookmarkNames(TheDoc)
            /\ (GivenTitle # <<>> \/ GivenYear # <<>>) =>
                   \A idx \in 3..Len(secs) : HeaderAndFooter(secs[idx])

C22_Witness ==
    /\ Replaced
    /\ finalized
    /\ Refused = {ChTitle(1)}
    /\ Nm("Chapter") \in Keys(hist.data)
    /\ ~BookmarksExists(TheDoc, ChTitle(1))
    /\ BookmarksExists(TheDoc, ChTitle2(1))
    /\ BookmarkText(TheDoc, ChTitle2(1)) = V("t1")
    /\ BookmarkText(TheDoc, ChContent(1)) = <<Long("c1"), NL>>
    /\ BookmarkText(TheDoc, ChPage(1)) = V("x")

\* C23: a failure of one figure's size estimation does not prevent its
\* insertion: an unreadable file is estimated at the default height of 200
\* points, a failed layout query forces no page break, and in both cases
\* the figure and its caption are inserted and the other figures of the
\* chapter are placed as well.
C23_EstimationFailuresAreLocal ==
    Inserted =>
        /\ \A a \in FilesOf(hist.n) :
              /\ Occurrences(doc, Img(a.c, a.i)) = 1
              /\ Occurrences(doc, FigLabel(a.c, a.i)) = 1
        /\ \A a \in NewFigures :
              /\ a.w = 0 =>
                    (BreakBefore(a) <=>
                        (hist.reading.ok /\ hist.reading.pos + 200 + 60
                                               > PageHeight - BottomMargin))
              /\ ~hist.reading.ok => ~BreakBefore(a)

C23_Witness ==
    /\ Inserted /\ hist.n = 1
    /\ NewFigures = {Fig11, Fig12}
    /\ hist.pop = "insert"
    /\ hist.reading = Reading(PageHeight - BottomMargin - 200 - 60 + 1)
    /\ BreakBefore(Fig12)
    /\ \E k \in 1..Len(doc) : doc[k] = FigLabel(1, 2)

C23_WitnessNoReading ==
    /\ Inserted /\ hist.n = 1
    /\ NewFigures = {Fig11, Fig12}
    /\ hist.reading = NoReading
    /\ ~BreakBefore(Fig12) /\ ~BreakBefore(Fig11)

(***************************************************************************)
(* Properties of the regeneration of the tail                              *)
(***************************************************************************)
\* C24: a finalize_document call builds its tail on a document without tail
\* content of an earlier call, also when the earlier build raised part-way:
\* after the call there is one table of contents, with the rows of the last
\* count, and one set of chapter sections.
C24_OneTail ==
    (docOk /\ hist.op = "finalize") =>
        /\ Occurrences(doc, Txt("Table of Contents")) = 1
        /\ TocRowCount = built + 1
        /\ SectionsCount(TheDoc) = built + 3

\* where the front matter ended when the last call started
FrontEnd == (CHOOSE b \in hist.pre.bms : b.name = Part1End).e

\* the regions of the front matter, the marker included
FrontRegions(marks, e) == {b \in marks : b.e <= e}

\* C25: a finalize_document call leaves the front matter as it was: the
\* text up to the Part1End marker, every region in it with its span, and
\* the marker itself are the same before and after, so that no paragraph
\* accumulates in the front matter over repeated calls.
C25_FrontMatterUnchanged ==
    (docOk /\ hist.op = "finalize") =>
        /\ Part1End \in {b.name : b \in hist.pre.bms}
        /\ SubSeq(doc, 1, FrontEnd) = SubSeq(hist.pre.doc, 1, FrontEnd)
        /\ FrontRegions(bms, FrontEnd) = FrontRegions(hist.pre.bms, FrontEnd)
        /\ \E b \in bms : b.name = Part1End /\ b.s = FrontEnd /\ b.e = FrontEnd
        /\ doc[FrontEnd].t = "sb"
        /\ CountTok(SubSeq(doc, 1, FrontEnd), "sb") = 1

C25_Witness ==
    /\ docOk /\ hist.op = "finalize" /\ hist.pop = "replace"
    /\ calls = 3
    /\ ChContent(1) \in {b.name : b \in hist.pre.bms}
    /\ BookmarkText(TheDoc, Nm("Abstract")) = V("abs")
    /\ Len(doc) # Len(hist.pre.doc)

(***************************************************************************)
(* C26: after any sequence of add_new_chapter_tab and remove_chapter_tab   *)
(* on the chapters page there is at least one chapter tab and the tab ids  *)
(* are exactly 1..n in list order; a removal requested when only one tab   *)
(* exists changes neither the tabs nor what is stored                      *)
(***************************************************************************)
TabIdsInOrder == \A k \in 1..Len(chapter_tabs) : chapter_tabs[k].id = k

RefusedRemoval == hist'.op = "remove" /\ Len(chapter_tabs) = 1

C26_TabsStayNumbered ==
    /\ [](/\ TabIdsInOrder
          /\ current_page = ChaptersPage => Len(chapter_tabs) >= 1)
    /\ [][RefusedRemoval =>
             UNCHANGED <<chapter_tabs, user_inputs, current_page, entries>>]_vars

\* a removal was asked for on the single tab left of the default five, and
\* the tab is still there
C26_Witness ==
    /\ hist.op = "remove" /\ Len(hist.tabs) = 1
    /\ current_page = ChaptersPage
    /\ Len(chapter_tabs) = 1 /\ chapter_tabs[1].id = 1
    /\ removes = default_tabs

(***************************************************************************)
(* C27: after any sequence of add, remove and page-navigation actions the  *)
(* chapter keys stored in user_inputs[5] are exactly ChapteriTitle and     *)
(* ChapteriContent for i in 1..n, n the current number of chapter tabs, so *)
(* that the data handed to save_document holds no key of a chapter above   *)
(* the num_chapters handed over with it.  As stated it fails where the     *)
(* chapters page is shown for the first time: the default tabs are there   *)
(* and nothing is stored yet.  What holds: the stored chapter keys are     *)
(* those of 1..n or, until the chapters page is first stored, none at all, *)
(* and the data handed over holds no key of a chapter above num_chapters   *)
(***************************************************************************)
ChapterKeys(data) == {key \in Keys(data) : StartsWith(key, Nm("Chapter"))}

KeysOfChapters(n) == {ChTitle(i) : i \in 1..n} \cup {ChContent(i) : i \in 1..n}

StoredChapterKeys == ChapterKeys(user_inputs[ChaptersPage])

C27_AsStated == StoredChapterKeys = KeysOfChapters(Len(chapter_tabs))

C27_StoredKeysMatchTabs ==
    /\ \/ StoredChapterKeys = KeysOfChapters(Len(chapter_tabs))
       \/ StoredChapterKeys = {}
    /\ ChapterKeys(save_entire_report.full_data)
          \subseteq KeysOfChapters(save_entire_report.num_chapters)

\* a sixth tab was added, the second removed, the user went on to the last
\* page and came back to the chapters page by the page selector
C27_Witness ==
    /\ hist.op = "jump" /\ current_page = ChaptersPage
    /\ removes = 1
    /\ Len(chapter_tabs) = default_tabs
    /\ StoredChapterKeys = KeysOfChapters(default_tabs)
    /\ \E k \in 1..Len(chapter_tabs) : chapter_tabs[k].entries[1].text # <<>>

(***************************************************************************)
(* C28: every navigation action of the wizard (next, previous, jump to a   *)
(* page, jump to the last page) stores the values of the current page's    *)
(* fields, as the widgets hand them out, into user_inputs[current_page]    *)
(* before current_page changes, and current_page stays within 1..number of *)
(* pages; what is stored for the other pages is left alone and the page    *)
(* arrived at shows what is stored for it, so that values typed on a page  *)
(* are never lost by navigating away from it                               *)
(***************************************************************************)
StoredAs(data, key, value) ==
    \E k \in 1..Len(data) : data[k] = <<key, value>>

ShownFields ==
    IF current_page = ChaptersPage
    THEN UNION {{chapter_tabs[k].entries[e] :
                    e \in 1..Len(chapter_tabs[k].entries)} :
                 k \in 1..Len(chapter_tabs)}
    ELSE {entries[e] : e \in 1..Len(entries)}

Navigated == current_page' # current_page \/ hist'.op = "jump"

StoresShownValues ==
    /\ Keys(user_inputs'[current_page]) = {f.label : f \in ShownFields}
    /\ \A f \in ShownFields :
          StoredAs(user_inputs'[current_page], f.label, WidgetGet(f))

OtherPagesKept ==
    \A p \in 1..Len(pages) :
        p # current_page => user_inputs'[p] = user_inputs[p]

ShowsStoredValues ==
    LET shown == IF current_page' = ChaptersPage
                 THEN UNION {{chapter_tabs'[k].entries[e] :
                                 e \in 1..Len(chapter_tabs'[k].entries)} :
                              k \in 1..Len(chapter_tabs')}
                 ELSE {entries'[e] : e \in 1..Len(entries')}
    IN  \A f \in shown :
            \/ StoredAs(user_inputs'[current_page'], f.label, f.text)
            \/ f.label \notin Keys(user_inputs'[current_page']) /\ f.text = <<>>

C28_NavigationKeepsValues ==
    /\ [](current_page \in 1..Len(pages))
    /\ [][/\ OtherPagesKept
          /\ Navigated => StoresShownValues /\ ShowsStoredValues]_vars

\* the title page was filled in and left by the page selector for the
\* acknowledgement page: what was typed is stored
C28_Witness ==
    /\ hist.op = "jump" /\ current_page = 4
    /\ typed = 1
    /\ \E f \in {Field(pages[2][k][1], pages[2][k][2], <<>>) :
                    k \in 1..Len(pages[2])} :
          StoredAs(user_inputs[2], f.label,
                   WidgetGet([f EXCEPT !.text = Typing(f)]))

(***************************************************************************)
(* C29: the user is told the report was saved only when it was:            *)
(* save_document shows its success message only if regeneration,           *)
(* substitution, page-number resolution and the save all completed without *)
(* raising, shows the error message if one of them raised, and the Done    *)
(* action of the wizard shows no saved-successfully message when the       *)
(* document handle is unavailable or the save failed                       *)
(***************************************************************************)
Completed == log = save_steps

ToldSaved == msg = "Saved" \/ hist.flash = DoneFlash

C29_ToldSavedOnlyWhenSaved ==
    hist.op = "done" =>
        /\ msg = "Saved" => docOk /\ Completed
        /\ docOk /\ ~Completed => msg = "Error"
        /\ ToldSaved => docOk /\ Completed

(***************************************************************************)
(* C30: figures stay with their chapter across renumbering: after images   *)
(* were uploaded for chapter j, a lower-numbered chapter is removed and    *)
(* the document is regenerated, those images are inserted in the section   *)
(* of the chapter that carries chapter j's original title and content (now *)
(* numbered j-1), and in no other chapter                                  *)
(***************************************************************************)
\* the chapter a tab was when the page was filled in, read off its title
OriginalNumber(tab) ==
    CHOOSE j \in 1..MaxTabs :
        TitleOf(tab) = Typing(Field(ChTitle(j), "entry", <<>>))

FilledIn(tabs) ==
    \A p \in 1..Len(tabs) :
        \E j \in 1..MaxTabs :
            TitleOf(tabs[p]) = Typing(Field(ChTitle(j), "entry", <<>>))

\* the chapters of the document in whose stretch, from the chapter's title
\* to the next chapter's, the caption of the figure stands
ChaptersHolding(d, c, i) ==
    {p \in 1..built :
        /\ BookmarksExists(d, ChTitle2(p))
        /\ \E x \in 1..Len(d.doc) :
              /\ d.doc[x] = FigLabel(c, i)
              /\ BookmarkRange(d, ChTitle2(p))[1] < x
              /\ x <= chapter_limit(d, p)}

\* the files uploaded in this run of the wizard
UploadedFiles == assets \ {Fig11}

C30_FiguresFollowTheirChapter ==
    (SavedNow /\ removes > 0 /\ FilledIn(hist.tabs)) =>
        \A a \in UploadedFiles :
            \A p \in 1..Len(hist.tabs) :
                (OriginalNumber(hist.tabs[p]) = a.c /\ p < a.c) =>
                    /\ BookmarkText(TheDoc, ChTitle2(p)) = TitleOf(hist.tabs[p])
                    /\ ChaptersHolding(TheDoc, a.c, a.i) = {p}

=============================================================================
